---- MODULE Spec2Model ----
(***************************************************************************)
(* Model of the devspace bootstrap-and-session orchestration:              *)
(*   - helm.NewClient / ensureTiller (pkg/devspace/helm/client.go,         *)
(*     tiller.go): the run-once bootstrap of the chart backend;            *)
(*   - UpCmd.buildAndDeploy / deployChart (cmd/up.go): the deployment      *)
(*     pipeline with its fingerprint cache (further below).                *)
(*   - UpCmd.startPortForwarding / startSync and the end of UpCmd.Run      *)
(*     (cmd/up.go): the sessions of a run and their teardown;              *)
(*   - RemoveCmd.RunRemoveSync / RunRemovePort / RunRemovePackage          *)
(*     (cmd/remove.go): the removal of declared entries.                   *)
(* Durations are in seconds.                                               *)
(***************************************************************************)
EXTENDS Integers, Sequences, FiniteSets, TLC

(* ----------------------------- bounds ---------------------------------- *)
\* goroutines that call helm.NewClient in one process
NumCallers == 2
Callers == 1..NumCallers
\* distinct chart fingerprints; 0 stands for "no fingerprint cached"
NumHashes == 2
Hashes == 1..NumHashes
\* consecutive runs of `devspace up`
MaxRuns == 3
\* images declared in the config
NumImages == 2
Images == 1..NumImages
\* port-forward declarations and sync declarations of the config
NumForwards == 2
NumSyncs == 2
\* repositories listed in the repositories file of the helm home
NumRepos == 2
\* container names; 0 stands for "no container name given"
NumContainers == 2
ContainerNames == 1..NumContainers

(* ------------------------- program constants --------------------------- *)
TillerWaitingTime == 120
TillerCheckInterval == 5
TunnelWaitTime == 120
TunnelCheckInterval == 5
HelmWaitTime == 120
HelmCheckInterval == 5
\* up.go 561: time.After(5 * time.Second)
PortForwardTimeout == 5

Nil == "nil"

VARIABLES
    cluster,     \* the tiller side of the cluster: api reachable, namespace,
                 \* service account, tiller-deploy and its replica status
    getOnce,     \* sync.Once: done flag and mutex holder (0 = unlocked)
    helmClient,  \* package variable helmClient: Nil or "wrapper"
    th,          \* per caller of NewClient: position, arguments, locals, result
    hist,        \* history of the process: closure executions and what they did
    cmd,         \* the UpCmd of the running `devspace up` process and its position
    generated,   \* the persisted generated config (the release cache)
    release,     \* the application release in the cluster: revision, running pod
    chartHash,   \* what hash.Directory("chart") yields for the chart tree as it is
    ups,         \* history of the runs: calls of this run, the previous run's end
    rm,          \* a `devspace remove` process: flags, arguments, the config in
                 \* memory and on disk, the requirements file, what it has done
    conf         \* package configutil in one process: the config files, the
                 \* Once, the four package variables, the calls in flight

bootVars == <<cluster, getOnce, helmClient, th, hist>>
upVars == <<cmd, generated, release, chartHash, ups>>
vars == <<cluster, getOnce, helmClient, th, hist, cmd, generated, release,
          chartHash, ups, rm, conf>>

(* ------------------------------ cluster -------------------------------- *)
TillerAbsent == [exists |-> FALSE, replicas |-> 0, ready |-> 0]

\* Namespaces().Get succeeds
NamespaceFound == cluster.api /\ cluster.ns
\* Deployments(ns).Get(TillerDeploymentName) succeeds
DeploymentFound == cluster.api /\ cluster.tiller.exists
\* ServiceAccounts(ns).Get(TillerServiceAccountName) succeeds
ServiceAccountFound == cluster.api /\ cluster.sa
\* a tiller pod is running, so a tunnel to it can be opened and it answers
TillerPodRunning == cluster.api /\ cluster.tiller.exists /\ cluster.tiller.ready >= 1
\* the backend as a bootstrap that succeeded leaves it: the lookups of
\* ensureTiller succeed and the readiness test of the wait loop holds
BackendReady ==
    /\ NamespaceFound
    /\ DeploymentFound
    /\ cluster.tiller.ready = cluster.tiller.replicas
    /\ TillerPodRunning

(* ------------------------------ threads -------------------------------- *)
ThreadInit ==
    [pc |-> "idle", upgradeTiller |-> FALSE, outerError |-> Nil, err |-> Nil,
     tunnel |-> Nil, tillerWaitingTime |-> TillerWaitingTime,
     tunnelWaitTime |-> TunnelWaitTime, helmWaitTime |-> HelmWaitTime,
     tillerError |-> Nil, lookups |-> 0, ret |-> Nil]

\* steady: the backend was Ready when the process started and nothing but
\* the process has touched the cluster since; forced: the upgradeTiller
\* argument of the call that runs the closure; configured, tasks, wg,
\* repoErrs: the number of repositories in the repositories file, the
\* download goroutine of each (running or done), the WaitGroup counter and the
\* number of errors logged by the goroutines
HistInit ==
    [runs |-> 0, finished |-> 0, result |-> Nil, tunnelTried |-> FALSE,
     tunnelUp |-> FALSE, probeOK |-> FALSE, calls |-> {}, steady |-> FALSE,
     forced |-> FALSE, configured |-> 0, tasks |-> <<>>, wg |-> 0,
     repoErrs |-> 0]

BootInit ==
    /\ cluster \in [api : BOOLEAN, ns : BOOLEAN, sa : BOOLEAN,
                    tiller : {TillerAbsent,
                              [exists |-> TRUE, replicas |-> 1, ready |-> 1]}]
    /\ cluster.tiller.exists => cluster.ns
    /\ getOnce = [done |-> FALSE, m |-> 0]
    /\ helmClient = Nil
    /\ th = [c \in Callers |-> ThreadInit]
    /\ hist = [HistInit EXCEPT !.steady = BackendReady]

\* the closure of NewClient returns with outerError = e
Fail(c, e) ==
    th' = [th EXCEPT ![c].outerError = e, ![c].pc = "fend"]

Goto(c, p) ==
    th' = [th EXCEPT ![c].pc = p]

Called(name) ==
    hist' = [hist EXCEPT !.calls = @ \cup {name}]

(* NewClient(kubectlClient, log, upgradeTiller) is called *)
Call(c) ==
    /\ th[c].pc = "idle"
    /\ \E up \in BOOLEAN :
         th' = [th EXCEPT ![c].pc = "once", ![c].upgradeTiller = up]
    /\ UNCHANGED <<cluster, getOnce, helmClient, hist, upVars, rm, conf>>

\* variant: a Once that forgets that it is done
DoSkipsNever(done) == FALSE
\* sync.Once: Do returns without calling the function when the Once is done
DoSkips(done) == done

(* getOnce.Do: the fast path reads the done flag *)
OnceDo(c) ==
    /\ th[c].pc = "once"
    /\ Goto(c, IF DoSkips(getOnce.done) THEN "return" ELSE "lock")
    /\ UNCHANGED <<cluster, getOnce, helmClient, hist, upVars, rm, conf>>

\* variant: a Once whose slow path does not take the mutex
OnceMayEnterUnlocked(c) == TRUE
\* the mutex of the Once is free
OnceMayEnter(c) == getOnce.m = 0

(* getOnce.Do, slow path: lock, re-check done, run the closure *)
OnceLock(c) ==
    /\ th[c].pc = "lock"
    /\ OnceMayEnter(c)
    /\ IF DoSkips(getOnce.done)
         THEN /\ Goto(c, "return")
              /\ UNCHANGED <<getOnce, hist>>
         ELSE /\ getOnce' = [getOnce EXCEPT !.m = c]
              /\ Goto(c, "cfg")
              /\ hist' = [hist EXCEPT !.runs = @ + 1,
                                      !.forced = th[c].upgradeTiller]
    /\ UNCHANGED <<cluster, helmClient, upVars, rm, conf>>

(* closure, client.go 49-60: the config names a tiller namespace and the
   kube client config loads *)
LoadConfigs(c) ==
    /\ th[c].pc = "cfg"
    /\ \/ Fail(c, "No tiller namespace specified")
       \/ Fail(c, "client config error")
       \/ Goto(c, "ns")
    /\ UNCHANGED <<cluster, getOnce, helmClient, hist, upVars, rm, conf>>

(* ensureTiller, tiller.go 40-53: get the namespace, create it if the get fails *)
EnsureNamespace(c) ==
    /\ th[c].pc = "ns"
    /\ IF NamespaceFound
         THEN /\ Goto(c, "dep")
              /\ UNCHANGED <<cluster, hist>>
         ELSE /\ Called("createNamespace")
              /\ IF cluster.api /\ ~cluster.ns
                   THEN \/ /\ cluster' = [cluster EXCEPT !.ns = TRUE]
                           /\ Goto(c, "dep")
                        \/ /\ Fail(c, "namespace create error")
                           /\ UNCHANGED cluster
                   ELSE /\ Fail(c, "namespace create error")
                        /\ UNCHANGED cluster
    /\ UNCHANGED <<getOnce, helmClient, upVars, rm, conf>>

\* variant: the upgrade argument is looked at before the lookup result
WorkloadPathUpgradeFirst(found, upgrade) ==
    IF upgrade THEN "upgrade" ELSE IF ~found THEN "create" ELSE "wait"

\* variant: a deployment that is found is upgraded whatever the argument
WorkloadPathAlwaysUpgrade(found, upgrade) ==
    IF ~found THEN "create" ELSE "upgrade"
\* variant: a deployment that is found is taken to be ready
WorkloadPathNoWait(found, upgrade) ==
    IF ~found THEN "create" ELSE IF upgrade THEN "upgrade" ELSE "tunnel"
\* tiller.go 55-71: which path the workload check takes
WorkloadPath(found, upgrade) ==
    IF ~found THEN "create" ELSE IF upgrade THEN "upgrade" ELSE "wait"

(* ensureTiller, tiller.go 55-71: look up tiller-deploy *)
CheckWorkload(c) ==
    /\ th[c].pc = "dep"
    /\ Goto(c, WorkloadPath(DeploymentFound, th[c].upgradeTiller))
    /\ UNCHANGED <<cluster, getOnce, helmClient, hist, upVars, rm, conf>>

\* variant: the RBAC objects are created whatever the lookup says
NeedsRBACAlways(found) == TRUE
\* tiller.go 82: createTillerRBAC is called when the lookup failed
NeedsRBAC(found) == ~found

\* createTillerRBAC: the service account, the role and the role binding of
\* tiller exist afterwards
CreateTillerRBAC(cl) == [cl EXCEPT !.sa = TRUE]

(* createTiller, tiller.go 80-87: service account lookup, RBAC if it fails *)
CreateRBAC(c) ==
    /\ th[c].pc = "create"
    /\ IF ~NeedsRBAC(ServiceAccountFound)
         THEN /\ Goto(c, "install")
              /\ UNCHANGED <<cluster, hist>>
         ELSE /\ Called("createTillerRBAC")
              /\ IF cluster.api
                   THEN \/ /\ cluster' = CreateTillerRBAC(cluster)
                           /\ Goto(c, "install")
                        \/ /\ Fail(c, "rbac create error")
                           /\ UNCHANGED cluster
                   ELSE /\ Fail(c, "rbac create error")
                        /\ UNCHANGED cluster
    /\ UNCHANGED <<getOnce, helmClient, upVars, rm, conf>>

(* createTiller, tiller.go 90: helminstaller.Install *)
InstallTiller(c) ==
    /\ th[c].pc = "install"
    /\ Called("install")
    /\ IF cluster.api /\ cluster.ns /\ ~cluster.tiller.exists
         THEN \/ /\ cluster' = [cluster EXCEPT
                        !.tiller = [exists |-> TRUE, replicas |-> 0, ready |-> 0]]
                 /\ Goto(c, "wait")
              \/ /\ Fail(c, "install error")
                 /\ UNCHANGED cluster
         ELSE /\ Fail(c, "install error")
              /\ UNCHANGED cluster
    /\ UNCHANGED <<getOnce, helmClient, upVars, rm, conf>>

(* upgradeTiller, tiller.go 117-126: helminstaller.Upgrade; the new image may
   restart the pod *)
UpgradeTiller(c) ==
    /\ th[c].pc = "upgrade"
    /\ Called("upgrade")
    /\ IF DeploymentFound
         THEN \/ /\ \E r \in {0, cluster.tiller.ready} :
                      cluster' = [cluster EXCEPT !.tiller.ready = r]
                 /\ Goto(c, "wait")
              \/ /\ Fail(c, "upgrade error")
                 /\ UNCHANGED cluster
         ELSE /\ Fail(c, "upgrade error")
              /\ UNCHANGED cluster
    /\ UNCHANGED <<getOnce, helmClient, upVars, rm, conf>>

\* variant: a deployment that is found counts as started
TillerStartedAlways(d) == TRUE

\* tiller.go 106: the readiness test of the wait loop
TillerStarted(d) == d.ready = d.replicas

\* variant: the tunnel loop goes on with what the readiness wait has left
TunnelBudgetShared(left) == left
\* client.go 70: the budget of the tunnel loop, set when ensureTiller has
\* returned with `left` of the budget of the readiness wait
TunnelBudget(left) == TunnelWaitTime
\* client.go 92: the budget of the probe loop, set when the tunnel loop has
\* ended with `left` of its budget
HelmBudget(left) == HelmWaitTime

(* waitUntilTillerIsStarted, tiller.go 93-115: one pass of the loop *)
WaitTiller(c) ==
    /\ th[c].pc = "wait"
    /\ IF th[c].tillerWaitingTime > 0
         THEN IF ~DeploymentFound
                THEN \* err != nil: continue, without sleep or decrement;
                     \* lookups is the parity of the Get calls that failed
                     th' = [th EXCEPT ![c].lookups = 1 - @]
                ELSE IF TillerStarted(cluster.tiller)
                       THEN th' = [th EXCEPT ![c].pc = "tunnel", ![c].lookups = 0,
                                     ![c].tillerWaitingTime = TillerWaitingTime,
                                     ![c].tunnelWaitTime =
                                         TunnelBudget(th[c].tillerWaitingTime)]
                       ELSE th' = [th EXCEPT ![c].tillerWaitingTime =
                                                 @ - TillerCheckInterval]
         ELSE th' = [th EXCEPT ![c].outerError = "Tiller didn't start in time",
                               ![c].pc = "fend", ![c].lookups = 0,
                               ![c].tillerWaitingTime = TillerWaitingTime]
    /\ UNCHANGED <<cluster, getOnce, helmClient, hist, upVars, rm, conf>>

(* NewClient, client.go 77-90: one pass of the tunnel loop *)
OpenTunnel(c) ==
    /\ th[c].pc = "tunnel"
    /\ \/ /\ TillerPodRunning
          /\ th' = [th EXCEPT ![c].tunnel = "tunnel", ![c].err = Nil,
                              ![c].pc = "probe",
                              ![c].tunnelWaitTime = TunnelWaitTime,
                              ![c].helmWaitTime =
                                  HelmBudget(th[c].tunnelWaitTime)]
          /\ hist' = [hist EXCEPT !.tunnelTried = TRUE, !.tunnelUp = TRUE]
       \/ /\ hist' = [hist EXCEPT !.tunnelTried = TRUE]
          /\ IF th[c].tunnelWaitTime <= 0
               THEN th' = [th EXCEPT ![c].err = "tunnel error",
                                     ![c].outerError = "tunnel error",
                                     ![c].pc = "fend",
                                     ![c].tunnelWaitTime = TunnelWaitTime]
               ELSE th' = [th EXCEPT ![c].err = "tunnel error",
                                     ![c].tunnelWaitTime = @ - TunnelCheckInterval]
    /\ UNCHANGED <<cluster, getOnce, helmClient, upVars, rm, conf>>

\* variant: the result of the probe is not looked at
ProbeFailedNever(tillerError) == FALSE
\* client.go 115: the probe failed
ProbeFailed(tillerError) == tillerError # Nil

\* client.go 113-118: after the probe loop
AfterProbe(c, tillerError) ==
    IF ProbeFailed(tillerError)
      THEN th' = [th EXCEPT ![c].tillerError = tillerError,
                            ![c].outerError = tillerError, ![c].pc = "fend",
                            ![c].helmWaitTime = HelmWaitTime]
      ELSE th' = [th EXCEPT ![c].tillerError = tillerError, ![c].pc = "home",
                            ![c].helmWaitTime = HelmWaitTime]

(* NewClient, client.go 103-118: one pass of the ListReleases loop *)
ProbeTiller(c) ==
    /\ th[c].pc = "probe"
    /\ IF th[c].helmWaitTime > 0
         THEN \/ /\ TillerPodRunning
                 /\ AfterProbe(c, Nil)
                 /\ hist' = [hist EXCEPT !.probeOK = TRUE]
              \/ /\ th' = [th EXCEPT ![c].tillerError = "list releases error",
                                     ![c].helmWaitTime = @ - HelmCheckInterval]
                 /\ UNCHANGED hist
         ELSE /\ AfterProbe(c, th[c].tillerError)
              /\ UNCHANGED hist
    /\ UNCHANGED <<cluster, getOnce, helmClient, upVars, rm, conf>>

(* NewClient, client.go 120-160: helm home, repositories file, the first
   download of the repository indexes *)
PrepareHome(c) ==
    /\ th[c].pc = "home"
    /\ \/ Fail(c, "homedir error")
       \/ Fail(c, "repositories file error")
       \/ Fail(c, "update repos error")
       \/ Goto(c, "publish")
    /\ UNCHANGED <<cluster, getOnce, helmClient, hist, upVars, rm, conf>>

(* NewClient, client.go 120-153: helm home, repositories file, stat of the
   stable index: updateRepos is called when the stat fails *)
HomeSetup(c) ==
    /\ th[c].pc = "home"
    /\ \/ Fail(c, "homedir error")
       \/ Fail(c, "repositories file error")
       \/ Goto(c, "repos")
       \/ Goto(c, "publish")
    /\ UNCHANGED <<cluster, getOnce, helmClient, hist, upVars, rm, conf>>

(* updateRepos, client.go 169-183: load the repositories file, make a chart
   repository of every entry *)
LoadRepos(c) ==
    /\ th[c].pc = "repos"
    /\ \/ /\ Fail(c, "update repos error")
          /\ UNCHANGED hist
       \/ /\ \E n \in 0..NumRepos : hist' = [hist EXCEPT !.configured = n]
          /\ Goto(c, "spawn")
    /\ UNCHANGED <<cluster, getOnce, helmClient, upVars, rm, conf>>

(* updateRepos, client.go 187-200: one pass of the loop: wg.Add(1) and the go
   statement; after the last repository the loop ends *)
SpawnTask(c) ==
    /\ th[c].pc = "spawn"
    /\ IF Len(hist.tasks) < hist.configured
         THEN /\ hist' = [hist EXCEPT !.tasks = Append(@, "running"),
                                      !.wg = @ + 1]
              /\ UNCHANGED th
         ELSE /\ Goto(c, "wgwait")
              /\ UNCHANGED hist
    /\ UNCHANGED <<cluster, getOnce, helmClient, upVars, rm, conf>>

\* variant: Wait does not look at the counter
WaitReturnsAtOnce(wg) == TRUE
\* sync.WaitGroup: Wait returns when the counter is zero
WaitReturns(wg) == wg = 0

(* updateRepos, client.go 202-204: wg.Wait(), return nil *)
WaitGroup(c) ==
    /\ th[c].pc = "wgwait"
    /\ WaitReturns(hist.wg)
    /\ Goto(c, "publish")
    /\ UNCHANGED <<cluster, getOnce, helmClient, hist, upVars, rm, conf>>

(* updateRepos, client.go 190-199: the goroutine of repository r downloads
   the index file, logs the error if there is one, calls wg.Done and ends *)
DownloadIndex(r) ==
    /\ r \in 1..Len(hist.tasks)
    /\ hist.tasks[r] = "running"
    /\ \/ hist' = [hist EXCEPT !.tasks[r] = "done", !.wg = @ - 1]
       \/ hist' = [hist EXCEPT !.tasks[r] = "done", !.wg = @ - 1,
                               !.repoErrs = @ + 1]
    /\ UNCHANGED <<cluster, getOnce, helmClient, th, upVars, rm, conf>>

(* NewClient, client.go 162: helmClient = wrapper *)
Publish(c) ==
    /\ th[c].pc = "publish"
    /\ helmClient' = "wrapper"
    /\ Goto(c, "fend")
    /\ UNCHANGED <<cluster, getOnce, hist, upVars, rm, conf>>

(* the closure has returned: Once stores done and unlocks *)
OnceDone(c) ==
    /\ th[c].pc = "fend"
    /\ getOnce' = [done |-> TRUE, m |-> 0]
    /\ hist' = [hist EXCEPT !.finished = @ + 1,
                            !.result = IF th[c].outerError = Nil /\ helmClient # Nil
                                         THEN "ok" ELSE th[c].outerError]
    /\ Goto(c, "return")
    /\ UNCHANGED <<cluster, helmClient, upVars, rm, conf>>

(* NewClient, client.go 165: return helmClient, outerError *)
Return(c) ==
    /\ th[c].pc = "return"
    /\ th' = [th EXCEPT ![c] = [ThreadInit EXCEPT
                 !.pc = "ret",
                 !.upgradeTiller = th[c].upgradeTiller,
                 !.ret = [client |-> helmClient, err |-> th[c].outerError]]]
    /\ UNCHANGED <<cluster, getOnce, helmClient, hist, upVars, rm, conf>>

ThreadStep(c) ==
    \/ Call(c) \/ OnceDo(c) \/ OnceLock(c) \/ LoadConfigs(c)
    \/ EnsureNamespace(c) \/ CheckWorkload(c) \/ CreateRBAC(c)
    \/ InstallTiller(c) \/ UpgradeTiller(c) \/ WaitTiller(c)
    \/ OpenTunnel(c) \/ ProbeTiller(c) \/ PrepareHome(c) \/ Publish(c)
    \/ OnceDone(c) \/ Return(c)

(* ------------------ the cluster changes on its own --------------------- *)
(* the API server becomes unreachable or reachable again *)
ApiFlips ==
    /\ cluster' = [cluster EXCEPT !.api = ~@]
    /\ hist' = [hist EXCEPT !.steady = FALSE]
    /\ UNCHANGED <<getOnce, helmClient, th, upVars, rm, conf>>

(* the deployment controller starts the pod, the pod becomes ready or dies *)
TillerProgress ==
    /\ cluster.tiller.exists
    /\ \E s \in {<<1, 0>>, <<1, 1>>} :
         /\ <<cluster.tiller.replicas, cluster.tiller.ready>> # s
         /\ cluster' = [cluster EXCEPT !.tiller.replicas = s[1],
                                       !.tiller.ready = s[2]]
    /\ hist' = [hist EXCEPT !.steady = FALSE]
    /\ UNCHANGED <<getOnce, helmClient, th, upVars, rm, conf>>

(* DeleteTiller, tiller.go 145-232, run from another process *)
DeleteTiller ==
    /\ cluster.api
    /\ cluster.tiller.exists
    /\ cluster' = [cluster EXCEPT !.tiller = TillerAbsent, !.sa = FALSE]
    /\ hist' = [hist EXCEPT !.steady = FALSE]
    /\ UNCHANGED <<getOnce, helmClient, th, upVars, rm, conf>>

ClusterStep == ApiFlips \/ TillerProgress \/ DeleteTiller


(* ===================== devspace up: cmd/up.go ========================== *)
\* no declaration has been processed yet
NoDecl ==
    [kind |-> "none", idx |-> 0, lookup |-> "unseen", res |-> "none",
     log |-> "none", name |-> 0, containers |-> <<>>, container |-> 0]

CmdInit(deploy) ==
    [pc |-> "start", deploy |-> deploy, helm |-> Nil, pod |-> 0,
     cached |-> 0, mustRedeploy |-> FALSE, hash |-> 0, foundPod |-> 0,
     branch |-> "none", releaseRevision |-> 0, fatal |-> Nil,
     portforwarding |-> "unread", sync |-> "unread",
     fi |-> 0, forwards |-> <<>>, readyChan |-> "none", timer |-> 0,
     si |-> 0, syncConfigs |-> <<>>, deferred |-> FALSE,
     decl |-> NoDecl, attached |-> <<>>, stopFailed |-> FALSE,
     noSleep |-> FALSE, containerValues |-> <<>>,
     overwriteValues |-> [containers |-> <<>>]]

RunInit(g, good, prev, n) ==
    [run |-> n, installCalls |-> 0, installOK |-> FALSE, waitOK |-> FALSE,
     saves |-> 0, startCache |-> g, lastGood |-> good, prev |-> prev]

NoPrev == [end |-> "none", hash |-> 0, differed |-> FALSE]

UpInit ==
    /\ generated \in [HelmChartHash : 0..NumHashes]
    /\ release \in {[revision |-> 0, podRev |-> 0],
                    [revision |-> 1, podRev |-> 0],
                    [revision |-> 1, podRev |-> 1]}
    /\ chartHash \in Hashes
    /\ \E deploy \in BOOLEAN : cmd = CmdInit(deploy)
    /\ ups = RunInit(generated, generated.HelmChartHash, NoPrev, 1)

\* log.Fatal / log.Fatalf: the process exits
Fatal(what) ==
    cmd' = [cmd EXCEPT !.pc = "fatal", !.fatal = what]

At(p) == cmd.pc = p

(* Run, up.go 113-141: workdir, config, kubectl client, release namespace,
   cluster role binding *)
StartUp ==
    /\ At("start")
    /\ \/ Fatal("setup")
       \/ cmd' = [cmd EXCEPT !.pc = "initHelm"]
    /\ UNCHANGED <<generated, release, chartHash, ups, bootVars, rm, conf>>

(* initHelm, up.go 361-374: NewClient returns the client or an error *)
InitHelm ==
    /\ At("initHelm")
    /\ \/ Fatal("bootstrap")
       \/ cmd' = [cmd EXCEPT !.helm = "wrapper", !.pc = "registries"]
    /\ UNCHANGED <<generated, release, chartHash, ups, bootVars, rm, conf>>

(* Run, up.go 145-147 and initRegistries, up.go 290-340 *)
InitRegistries ==
    /\ At("registries")
    /\ \/ Fatal("registries")
       \/ cmd' = [cmd EXCEPT !.pc = "load"]
    /\ UNCHANGED <<generated, release, chartHash, ups, bootVars, rm, conf>>

(* buildAndDeploy, up.go 169-172: generated.LoadConfig *)
LoadGenerated ==
    /\ At("load")
    /\ \/ Fatal("load")
       \/ cmd' = [cmd EXCEPT !.cached = generated.HelmChartHash, !.pc = "build"]
    /\ UNCHANGED <<generated, release, chartHash, ups, bootVars, rm, conf>>

(* buildImages, up.go 343-359: image.Build for every image *)
BuildImages ==
    /\ At("build")
    /\ \E built \in [Images -> {"rebuilt", "unchanged", "error"}] :
         IF \E i \in Images : built[i] = "error"
           THEN Fatal("build")
           ELSE cmd' = [cmd EXCEPT
                          !.mustRedeploy = \E i \in Images : built[i] = "rebuilt",
                          !.pc = "hash"]
    /\ UNCHANGED <<generated, release, chartHash, ups, bootVars, rm, conf>>

(* buildAndDeploy, up.go 178-181: hash.Directory("chart") *)
HashChart ==
    /\ At("hash")
    /\ \/ Fatal("hash")
       \/ cmd' = [cmd EXCEPT !.hash = chartHash, !.pc = "decide"]
    /\ UNCHANGED <<generated, release, chartHash, ups, bootVars, rm, conf>>

\* variants: the fingerprint comparison inverted, --deploy not looked at,
\* the fingerprint not looked at
MustDeployInvertedHash(podErr, mustRedeploy, deploy, cachedHash, hash) ==
    podErr \/ mustRedeploy \/ deploy \/ cachedHash = hash
MustDeployNoForce(podErr, mustRedeploy, deploy, cachedHash, hash) ==
    podErr \/ mustRedeploy \/ cachedHash # hash
MustDeployNoHash(podErr, mustRedeploy, deploy, cachedHash, hash) ==
    podErr \/ mustRedeploy \/ deploy
\* up.go 185: the condition of the deploy branch
MustDeploy(podErr, mustRedeploy, deploy, cachedHash, hash) ==
    podErr \/ mustRedeploy \/ deploy \/ cachedHash # hash

\* variant: SaveConfig after the branch instead of inside it
AfterDecisionSaveAlways(must) == IF must THEN "values" ELSE "save"
\* up.go 185-197: where buildAndDeploy continues after the condition
AfterDecision(must) == IF must THEN "values" ELSE "built"

\* variant: the pod of the lookup is dropped
PodAfterDecisionNone(must, old, pod) == old
\* up.go 195-197: cmd.pod = pod on the else branch only
PodAfterDecision(must, old, pod) == IF must THEN old ELSE pod

(* buildAndDeploy, up.go 184-197: getRunningDevSpacePod and the branch *)
Decide ==
    /\ At("decide")
    /\ \E pod \in {0, release.podRev} :
         LET must == MustDeploy(pod = 0, cmd.mustRedeploy, cmd.deploy,
                                cmd.cached, cmd.hash)
         IN  cmd' = [cmd EXCEPT
                       !.foundPod = pod,
                       !.branch = IF must THEN "deploy" ELSE "skip",
                       !.pod = PodAfterDecision(must, @, pod),
                       !.pc = AfterDecision(must)]
    /\ UNCHANGED <<generated, release, chartHash, ups, bootVars, rm, conf>>

\* the image reference of a declared image, an opaque value
GetImageURL(imageName) == [image |-> imageName]

\* variant: command and args are emptied whatever the flag says
ContainerAlwaysAwake(url, noSleep) ==
    [k \in {"image", "command", "args"} |-> IF k = "image" THEN url ELSE <<>>]
\* up.go 397-403: the entry of one image
Container(url, noSleep) ==
    IF noSleep
      THEN [k \in {"image", "command", "args"} |->
               IF k = "image" THEN url ELSE <<>>]
      ELSE [k \in {"image"} |-> url]

\* up.go 394-406: containerValues, built by the loop over config.Images
RECURSIVE ContainerValues(_, _)
ContainerValues(images, noSleep) ==
    IF images = {}
      THEN <<>>
      ELSE LET imageName == CHOOSE i \in images : TRUE
               rest == ContainerValues(images \ {imageName}, noSleep)
           IN  [i \in DOMAIN rest \cup {imageName} |->
                   IF i = imageName
                     THEN Container(GetImageURL(imageName), noSleep)
                     ELSE rest[i]]

\* up.go 421: overwriteValues["containers"] = containerValues; the pull
\* secrets of up.go 408-422 are a second key, left out
OverwriteValues(containerValues) == [containers |-> containerValues]

(* deployChart, up.go 389-406: the chart's values.yaml, then the entries of
   the images *)
ReadValues ==
    /\ At("values")
    /\ \/ Fatal("values")
       \/ cmd' = [cmd EXCEPT
                     !.containerValues = ContainerValues(Images, cmd.noSleep),
                     !.pc = "install"]
    /\ UNCHANGED <<generated, release, chartHash, ups, bootVars, rm, conf>>

\* variant: a failed install that is only logged
AfterInstallNoAbort(ok) == "waitpod"
\* up.go 426-428: a failed install is fatal
AfterInstall(ok) == IF ok THEN "waitpod" ELSE "fatal"

(* deployChart, up.go 425-431: InstallChartByPath *)
InstallChart ==
    /\ At("install")
    /\ \E ok \in BOOLEAN :
         /\ cmd' = [cmd EXCEPT
                      !.pc = AfterInstall(ok),
                      !.fatal = IF ok THEN @ ELSE "install",
                      !.overwriteValues = OverwriteValues(cmd.containerValues),
                      !.releaseRevision = IF ok THEN release.revision + 1 ELSE @]
         /\ release' = IF ok
                         THEN [release EXCEPT !.revision = @ + 1]
                         ELSE release
         /\ ups' = [ups EXCEPT !.installCalls = @ + 1, !.installOK = ok]
    /\ UNCHANGED <<generated, chartHash, bootVars, rm, conf>>

\* variant: a readiness timeout that is only logged
AfterWaitNoAbort(ready) == "save"
\* up.go 434-437: a readiness timeout is fatal
AfterWait(ready) == IF ready THEN "save" ELSE "fatal"

(* deployChart, up.go 434-437: WaitForReleasePodToGetReady ends with the pod
   of the new revision or with a timeout *)
WaitReleasePod ==
    /\ At("waitpod")
    /\ LET ready == release.podRev = cmd.releaseRevision
       IN  /\ cmd' = [cmd EXCEPT
                        !.pc = AfterWait(ready),
                        !.fatal = IF AfterWait(ready) = "fatal" THEN "wait" ELSE @,
                        !.pod = IF ready THEN release.podRev ELSE @]
           /\ ups' = [ups EXCEPT !.waitOK = ready]
    /\ UNCHANGED <<generated, release, chartHash, bootVars, rm, conf>>

\* variant: the hash is not set before the save
ConfigToSaveStale(g, hash) == g
\* up.go 188: generatedConfig.HelmChartHash = hash
ConfigToSave(g, hash) == [g EXCEPT !.HelmChartHash = hash]

(* buildAndDeploy, up.go 188-194: set the hash, generated.SaveConfig *)
SaveGenerated ==
    /\ At("save")
    /\ \/ /\ generated' = ConfigToSave([HelmChartHash |-> cmd.cached], cmd.hash)
          /\ cmd' = [cmd EXCEPT !.pc = "built"]
          /\ ups' = [ups EXCEPT
                       !.saves = @ + 1,
                       !.lastGood = IF ups.installOK /\ ups.waitOK
                                      THEN cmd.hash ELSE @]
       \/ /\ Fatal("save")
          /\ UNCHANGED <<generated, ups>>
    /\ UNCHANGED <<release, chartHash, bootVars, rm, conf>>

(* ------------------- sessions: up.go 151-165, 440-570 ------------------ *)
\* the containers of a pod in the order of the pod spec; the names are
\* numbered in that order
PodContainers ==
    {cs \in UNION {[1..n -> ContainerNames] : n \in 0..NumContainers} :
        \A a, b \in 1..Len(cs) : a < b => cs[a] < cs[b]}

\* what kubectl.GetFirstRunningPod can answer: an error, no pod, or a pod
Lookups ==
    {[kind |-> "error", containers |-> <<>>], [kind |-> "none", containers |-> <<>>]}
    \cup {[kind |-> "pod", containers |-> cs] : cs \in PodContainers}

\* the declaration the loop is at, with what became of it; the locals of the
\* loop body are gone when the loop is left
Processed(kind, idx, lookup, res, log) ==
    [NoDecl EXCEPT !.kind = kind, !.idx = idx, !.lookup = lookup, !.res = res,
                   !.log = log]

\* variant: Run goes from port forwarding straight to the terminal
AfterPortForwardingNoSync == "attach"
\* Run, up.go 151-155: what follows the port-forwarding stage
AfterPortForwarding == "syncs"

(* Run, up.go 151-153: the portforwarding flag *)
StartPortForwarding ==
    /\ At("built")
    /\ \E flag \in {"on", "off"} :
         cmd' = [cmd EXCEPT !.portforwarding = flag,
                            !.pc = IF flag = "on" THEN "forward"
                                   ELSE AfterPortForwarding]
    /\ UNCHANGED <<generated, release, chartHash, ups, bootVars, rm, conf>>

\* variant: the resource type is not looked at
ForwardOutcomeAnyType(rtype, selector, lookup) ==
    IF selector = "empty" THEN [res |-> "noSelector", log |-> "none"]
    ELSE IF lookup.kind = "error" THEN [res |-> "lookupError", log |-> "error"]
    ELSE IF lookup.kind = "none" THEN [res |-> "noPod", log |-> "none"]
    ELSE [res |-> "started", log |-> "none"]
\* up.go 529-546: what becomes of one port-forward declaration
ForwardOutcome(rtype, selector, lookup) ==
    IF rtype \notin {"unset", "pod"} THEN [res |-> "unsupported", log |-> "warn"]
    ELSE IF selector = "empty" THEN [res |-> "noSelector", log |-> "none"]
    ELSE IF lookup.kind = "error" THEN [res |-> "lookupError", log |-> "error"]
    ELSE IF lookup.kind = "none" THEN [res |-> "noPod", log |-> "none"]
    ELSE [res |-> "started", log |-> "none"]

(* startPortForwarding, up.go 528-555: one declaration, up to the start of
   the forwarding goroutine; after the last declaration the function returns *)
ForwardPorts ==
    /\ At("forward")
    /\ IF cmd.fi = NumForwards
         THEN cmd' = [cmd EXCEPT !.decl = NoDecl, !.pc = AfterPortForwarding]
         ELSE \E rtype \in {"unset", "pod", "other"}, selector \in {"empty", "set"},
                 lookup \in {l \in Lookups : Len(l.containers) = 0} :
                LET out == ForwardOutcome(rtype, selector, lookup)
                    i == cmd.fi + 1
                    seen == IF out.res \in {"unsupported", "noSelector"}
                              THEN "unseen" ELSE lookup.kind
                IN  IF out.res = "started"
                      THEN cmd' = [cmd EXCEPT
                                     !.fi = i,
                                     !.decl = Processed("forward", i, seen, "started",
                                                       "none"),
                                     !.forwards = Append(@,
                                         [decl |-> i, stop |-> "open"]),
                                     !.readyChan = "open",
                                     !.timer = 0,
                                     !.pc = "pfwait"]
                      ELSE cmd' = [cmd EXCEPT
                                     !.fi = i,
                                     !.decl = Processed("forward", i, seen, out.res,
                                                       out.log)]
    /\ UNCHANGED <<generated, release, chartHash, ups, bootVars, rm, conf>>

\* variant: a select without the timer case
SelectCasesNoTimer(readyChan, timer) ==
    IF readyChan = "closed" THEN {"ready"} ELSE {}
\* up.go 558-563: the cases of the select that can be taken
SelectCases(readyChan, timer) ==
    (IF readyChan = "closed" THEN {"ready"} ELSE {}) \cup
    (IF timer >= PortForwardTimeout THEN {"timeout"} ELSE {})

(* startPortForwarding, up.go 558-563: the select on readyChan and the timer *)
AwaitForwardReady ==
    /\ At("pfwait")
    /\ \E case \in SelectCases(cmd.readyChan, cmd.timer) :
         cmd' = [cmd EXCEPT
                   !.decl.res = case,
                   !.decl.log = IF case = "ready" THEN "done" ELSE "error",
                   !.readyChan = "none",
                   !.timer = 0,
                   !.pc = "forward"]
    /\ UNCHANGED <<generated, release, chartHash, ups, bootVars, rm, conf>>

\* variant: startSync is called whatever the flag says
SyncStageAlways(flag) == "sync"
\* Run, up.go 155-164: startSync is called when the sync flag is set,
\* otherwise the terminal comes next
SyncStage(flag) == IF flag = "on" THEN "sync" ELSE "attach"

(* Run, up.go 155: the sync flag *)
StartSync ==
    /\ At("syncs")
    /\ \E flag \in {"on", "off"} :
         cmd' = [cmd EXCEPT !.sync = flag, !.pc = SyncStage(flag)]
    /\ UNCHANGED <<generated, release, chartHash, ups, bootVars, rm, conf>>

\* variant: the container name of the declaration is not looked at
SelectContainerFirst(containers, name) == containers[1]
\* up.go 472-488: the container a sync declaration is bound to, 0 when the
\* named container is not in the pod
SelectContainer(containers, name) ==
    IF name = 0
      THEN containers[1]
      ELSE IF \E k \in 1..Len(containers) : containers[k] = name
             THEN name
             ELSE 0

\* up.go 445-517: what becomes of one sync declaration
SyncOutcome(absOK, lookup, name, startOK) ==
    IF ~absOK THEN [res |-> "panic", log |-> "panic"]
    ELSE IF lookup.kind = "error" THEN [res |-> "panic", log |-> "panic"]
    ELSE IF lookup.kind = "none" THEN [res |-> "noPod", log |-> "none"]
    ELSE IF Len(lookup.containers) = 0 THEN [res |-> "noContainers", log |-> "warn"]
    ELSE IF SelectContainer(lookup.containers, name) = 0
           THEN [res |-> "notFound", log |-> "warn"]
    ELSE IF ~startOK THEN [res |-> "startFailed", log |-> "fatal"]
    ELSE [res |-> "started", log |-> "done"]

\* variant: a failed start is only logged, as in startPortForwarding
AfterSyncStartLogged(ok) == "sync"
\* up.go 511-517: a failed start of a sync session is fatal
AfterSyncStart(ok) == IF ok THEN "sync" ELSE "fatal"

\* an input the code does not get to look at is left at its default
Consulted(absOK, lookup, name, startOK) ==
    /\ ~absOK => lookup.kind = "error"
    /\ (lookup.kind # "pod" \/ Len(lookup.containers) = 0) => name = 0
    /\ SyncOutcome(absOK, lookup, name, TRUE).res # "started" => startOK

(* startSync, up.go 444-522: one declaration; after the last one the function
   returns and Run defers the Stop of the returned sessions (up.go 157-161) *)
SyncPath ==
    /\ At("sync")
    /\ IF cmd.si = NumSyncs
         THEN cmd' = [cmd EXCEPT !.decl = NoDecl, !.deferred = TRUE,
                                 !.pc = "attach"]
         ELSE \E absOK \in BOOLEAN, lookup \in Lookups,
                 name \in 0..NumContainers, startOK \in BOOLEAN :
                /\ Consulted(absOK, lookup, name, startOK)
                /\ LET out == SyncOutcome(absOK, lookup, name, startOK)
                       i == cmd.si + 1
                       bound == IF out.res \in {"started", "startFailed"}
                                  THEN SelectContainer(lookup.containers, name)
                                  ELSE 0
                       d == [kind |-> "sync", idx |-> i,
                             lookup |-> IF absOK THEN lookup.kind ELSE "unseen",
                             res |-> out.res,
                             log |-> out.log, name |-> name,
                             containers |-> lookup.containers,
                             container |-> bound]
                   IN  CASE out.res = "panic" ->
                              cmd' = [cmd EXCEPT !.si = i, !.decl = d,
                                        !.pc = "fatal", !.fatal = "syncPanic"]
                         [] out.res = "startFailed" ->
                              cmd' = [cmd EXCEPT !.si = i, !.decl = d,
                                        !.pc = AfterSyncStart(FALSE),
                                        !.fatal = IF AfterSyncStart(FALSE) = "fatal"
                                                    THEN "syncStart" ELSE @]
                         [] out.res = "started" ->
                              cmd' = [cmd EXCEPT !.si = i, !.decl = d,
                                        !.syncConfigs = Append(@,
                                            [decl |-> i, stops |-> 0])]
                         [] OTHER ->
                              cmd' = [cmd EXCEPT !.si = i, !.decl = d]
    /\ UNCHANGED <<generated, release, chartHash, ups, bootVars, rm, conf>>

(* Run, up.go 164: enterTerminal is called with cmd.pod; attached holds the
   pod of every call *)
EnterTerminal ==
    /\ At("attach")
    /\ cmd' = [cmd EXCEPT !.attached = Append(@, cmd.pod), !.pc = "terminal"]
    /\ UNCHANGED <<generated, release, chartHash, ups, bootVars, rm, conf>>

\* up.go 157-165: what runs when Run returns
AfterTerminal(deferred, syncConfigs) ==
    IF deferred /\ Len(syncConfigs) > 0 THEN "stopping" ELSE "exit"

(* the interactive session ends: enterTerminal returns and so does Run *)
TerminalExits ==
    /\ At("terminal")
    /\ cmd' = [cmd EXCEPT !.pc = AfterTerminal(cmd.deferred, cmd.syncConfigs)]
    /\ UNCHANGED <<generated, release, chartHash, ups, bootVars, rm, conf>>

\* variant: the loop is left after the first session
NextToStopFirstOnly(syncConfigs) ==
    IF syncConfigs[1].stops = 0 THEN 1 ELSE 0
\* up.go 158: the next session of the range loop, 0 when the loop is over
NextToStop(syncConfigs) ==
    IF \E k \in 1..Len(syncConfigs) : syncConfigs[k].stops = 0
      THEN CHOOSE k \in 1..Len(syncConfigs) :
               /\ syncConfigs[k].stops = 0
               /\ \A j \in 1..(k - 1) : syncConfigs[j].stops > 0
      ELSE 0

(* Run, up.go 157-161: the deferred loop calls Stop on one session; Stop may
   fail inside, it returns nothing *)
StopSync ==
    /\ At("stopping")
    /\ LET k == NextToStop(cmd.syncConfigs)
       IN  \E failed \in BOOLEAN :
              cmd' = [cmd EXCEPT
                        !.syncConfigs[k].stops = @ + 1,
                        !.stopFailed = @ \/ failed,
                        !.pc = IF NextToStop([cmd.syncConfigs EXCEPT
                                                ![k].stops = @ + 1]) = 0
                                 THEN "exit" ELSE "stopping"]
    /\ UNCHANGED <<generated, release, chartHash, ups, bootVars, rm, conf>>

(* kubectl.ForwardPorts, started at up.go 555, closes readyChan once the
   ports are forwarded; only the select of this declaration reads readyChan,
   so what the goroutine signals after the select is seen by nobody *)
ForwardReady ==
    /\ At("pfwait")
    /\ cmd.readyChan = "open"
    /\ cmd' = [cmd EXCEPT !.readyChan = "closed"]
    /\ UNCHANGED <<generated, release, chartHash, ups, bootVars, rm, conf>>

(* a second passes while Run waits in the select of up.go 558-563 *)
SecondPasses ==
    /\ At("pfwait")
    /\ cmd.timer < PortForwardTimeout
    /\ cmd' = [cmd EXCEPT !.timer = @ + 1]
    /\ UNCHANGED <<generated, release, chartHash, ups, bootVars, rm, conf>>

SessionStep ==
    \/ StartPortForwarding \/ ForwardPorts \/ AwaitForwardReady
    \/ StartSync \/ SyncPath \/ EnterTerminal \/ TerminalExits \/ StopSync

SessionEnv == ForwardReady \/ SecondPasses

(* Run, up.go 151-165, taken in one step where only the end of the run
   counts: the sessions and the terminal end with the return of Run, or the
   process dies in startSync (log.Panicf, log.Fatalf) *)
RunSessions ==
    /\ At("built")
    /\ \/ cmd' = [cmd EXCEPT !.pc = "exit"]
       \/ Fatal("syncPanic")
       \/ Fatal("syncStart")
    /\ UNCHANGED <<generated, release, chartHash, ups, bootVars, rm, conf>>

\* how the run that has ended is remembered
RunEnd ==
    [end |-> IF cmd.pc = "exit" THEN "ok"
             ELSE IF cmd.fatal \in {"install", "wait"} THEN "deployFatal"
             ELSE "otherFatal",
     hash |-> cmd.hash,
     differed |-> cmd.hash # cmd.cached]

(* the process has ended; the developer may edit the chart and runs
   `devspace up` again, with or without --deploy *)
NextRun ==
    /\ cmd.pc \in {"exit", "fatal"}
    /\ ups.run < MaxRuns
    /\ \E deploy \in BOOLEAN : cmd' = CmdInit(deploy)
    /\ chartHash' \in Hashes
    /\ ups' = RunInit(generated, ups.lastGood, RunEnd, ups.run + 1)
    /\ UNCHANGED <<generated, release, bootVars, rm, conf>>

\* Run up to the return of buildAndDeploy
PipelineStep ==
    \/ StartUp \/ InitHelm \/ InitRegistries \/ LoadGenerated \/ BuildImages
    \/ HashChart \/ Decide \/ ReadValues \/ InstallChart \/ WaitReleasePod
    \/ SaveGenerated

UpStep ==
    \/ PipelineStep \/ RunSessions \/ NextRun

(* the pod of the current revision becomes ready *)
ReleasePodReady ==
    /\ release.revision > 0
    /\ release.podRev # release.revision
    /\ release' = [release EXCEPT !.podRev = release.revision]
    /\ UNCHANGED <<cmd, generated, chartHash, ups, bootVars, rm, conf>>

(* the running pod of the release dies *)
ReleasePodDies ==
    /\ release.podRev # 0
    /\ release' = [release EXCEPT !.podRev = 0]
    /\ UNCHANGED <<cmd, generated, chartHash, ups, bootVars, rm, conf>>

ReleaseStep == ReleasePodReady \/ ReleasePodDies


(* ================== devspace remove: cmd/remove.go ===================== *)
\* all sequences over S of length at most n
SeqsUpTo(S, n) == UNION {[1..k -> S] : k \in 0..n}

\* values of the --selector flag and the label maps of the config
SelectorFlags == {"", "release=test", "app=web", "release"}
LabelMaps == {{}, {<<"release", "test">>}}

\* parseSelectors: "" is the empty map, a comma separated key=value list is
\* the map of its pairs, anything else is an error
ParseSelectors(selector) ==
    CASE selector = "" -> [err |-> FALSE, map |-> {}]
      [] selector = "release=test" ->
            [err |-> FALSE, map |-> {<<"release", "test">>}]
      [] selector = "app=web" -> [err |-> FALSE, map |-> {<<"app", "web">>}]
      [] OTHER -> [err |-> TRUE, map |-> {}]

\* isMapEqual: the two label maps hold the same pairs
IsMapEqual(map1, map2) == map1 = map2

\* sync entries of the config: LocalSubPath, ContainerPath, LabelSelector
LocalPaths == {"app", "lib"}
ContainerPaths == {"/app", "/lib"}
SyncEntries ==
    [LocalSubPath : LocalPaths, ContainerPath : ContainerPaths,
     LabelSelector : LabelMaps]

\* port mappings and port-forward entries of the config
PortMappingList ==
    <<[LocalPort |-> 8080, RemotePort |-> 80],
      [LocalPort |-> 3000, RemotePort |-> 8080],
      [LocalPort |-> 9000, RemotePort |-> 9000]>>
\* the non-empty lists of mappings, each a sublist of PortMappingList
PortMappingLists ==
    {SelectSeq(PortMappingList, LAMBDA pm : pm \in chosen) :
        chosen \in (SUBSET {PortMappingList[i] : i \in 1..3}) \ {{}}}
PortEntries == [LabelSelector : LabelMaps, PortMappings : PortMappingLists]

\* the argument of `remove port`, and strings.Split(argPorts, ",") of each
PortArgs == {"", "8080", "8080, 3000", "http"}
Split(argPorts) ==
    CASE argPorts = "" -> <<"">>
      [] argPorts = "8080" -> <<"8080">>
      [] argPorts = "8080, 3000" -> <<"8080", " 3000">>
      [] OTHER -> <<argPorts>>
TrimSpace(v) == IF v = " 3000" THEN "3000" ELSE v
Itoa(n) ==
    CASE n = 80 -> "80" [] n = 3000 -> "3000" [] n = 8080 -> "8080"
      [] n = 9000 -> "9000"

\* remove.go 335-343
ContainsPort(port, ports) ==
    \E i \in 1..Len(ports) : TrimSpace(ports[i]) = port

\* entries of the dependencies list of requirements.yaml: a map with a name,
\* a map without the name key ("")
DependencyNames == {"mysql", "redis"}
Dependencies == DependencyNames \cup {""}
\* the requirements file: unreadable, without the dependencies key, with a
\* dependencies value that is no list, with a list
Requirements(n) ==
    {[kind |-> k, deps |-> <<>>] : k \in {"unreadable", "nokey", "nolist"}}
      \cup {[kind |-> "list", deps |-> d] : d \in SeqsUpTo(Dependencies, n)}

\* the longest list of config entries and of dependencies
MaxEntries == 2

RmFlagsNone ==
    [Selector |-> "", LocalPath |-> "", ContainerPath |-> "",
     RemoveAll |-> FALSE, Deployment |-> "ok"]

\* set: the list of the config is not nil
NoList == [set |-> FALSE, items |-> <<>>]
Lists(S) == {NoList} \cup {[set |-> TRUE, items |-> l] : l \in SeqsUpTo(S, MaxEntries)}

RmInit(op, flags, args, config, requirements) ==
    [op |-> op, pc |-> "start", flags |-> flags, args |-> args,
     config |-> config, file |-> config, requirements |-> requirements,
     in |-> [config |-> config, requirements |-> requirements],
     saves |-> 0, writes |-> 0, rebuilds |-> 0, log |-> "none",
     help |-> FALSE]

NoConfig == [Sync |-> NoList, Ports |-> NoList]
NoRequirements == [kind |-> "nokey", deps |-> <<>>]

RmIdle == RmInit("none", RmFlagsNone, <<>>, NoConfig, NoRequirements)

\* `devspace remove sync` with its flags
InitRemoveSync ==
    \E sel \in SelectorFlags, local \in LocalPaths \cup {""},
       container \in ContainerPaths \cup {""}, all \in BOOLEAN,
       sync \in Lists(SyncEntries) :
        rm = RmInit("sync",
                    [RmFlagsNone EXCEPT !.Selector = sel, !.LocalPath = local,
                         !.ContainerPath = container, !.RemoveAll = all],
                    <<>>, [NoConfig EXCEPT !.Sync = sync], NoRequirements)

\* `devspace remove port [ports]` with its flags
InitRemovePort ==
    \E sel \in SelectorFlags, all \in BOOLEAN,
       args \in {<<>>} \cup {<<a>> : a \in PortArgs},
       ports \in Lists(PortEntries) :
        rm = RmInit("port",
                    [RmFlagsNone EXCEPT !.Selector = sel, !.RemoveAll = all],
                    args, [NoConfig EXCEPT !.Ports = ports], NoRequirements)

\* `devspace remove package [name]` with its flags; Deployment stands for
\* what the -d flag and the deployments of the config come to
InitRemovePackage ==
    \E all \in BOOLEAN, d \in {"ok", "unspecified", "invalid", "notfound"},
       args \in {<<>>} \cup {<<a>> : a \in DependencyNames},
       req \in Requirements(MaxEntries) :
        rm = RmInit("package",
                    [RmFlagsNone EXCEPT !.RemoveAll = all, !.Deployment = d],
                    args, NoConfig, req)

\* log.Fatal / log.Fatalf: the process exits
RmFatal(r, what) == [r EXCEPT !.pc = "fatal", !.log = what]
RmReturn(r) == [r EXCEPT !.pc = "returned"]

\* configutil.SaveConfig: the config in memory is written to the file
SaveConfig(r, ok) ==
    IF ok THEN [r EXCEPT !.saves = @ + 1, !.file = r.config]
    ELSE [r EXCEPT !.saves = @ + 1]

\* variant: the check of the flags does not look at --local and --container
NoSyncInputNever(map, flags) == FALSE
\* remove.go 249: none of the flags of remove sync is given
NoSyncInput(map, flags) ==
    /\ Cardinality(map) = 0
    /\ flags.RemoveAll = FALSE
    /\ flags.LocalPath = ""
    /\ flags.ContainerPath = ""

\* remove.go 260-263: the entry is removed
SyncRemoved(v, map, flags) ==
    \/ flags.RemoveAll
    \/ flags.LocalPath = v.LocalSubPath
    \/ flags.ContainerPath = v.ContainerPath
    \/ IsMapEqual(map, v.LabelSelector)

(* RunRemoveSync, remove.go 241-277 *)
RunRemoveSync ==
    /\ rm.op = "sync"
    /\ rm.pc = "start"
    /\ LET parsed == ParseSelectors(rm.flags.Selector)
           newSyncPaths ==
               SelectSeq(rm.config.Sync.items,
                      LAMBDA v : ~SyncRemoved(v, parsed.map, rm.flags))
           changed == [rm EXCEPT !.config.Sync.items = newSyncPaths]
       IN  IF parsed.err
             THEN rm' = RmFatal(rm, "Error parsing selectors")
           ELSE IF NoSyncInput(parsed.map, rm.flags)
             THEN rm' = RmReturn([rm EXCEPT !.log = "specify a flag",
                                            !.help = TRUE])
           ELSE IF rm.config.Sync.set /\ Len(rm.config.Sync.items) > 0
             THEN \/ rm' = RmReturn(SaveConfig(changed, TRUE))
                  \/ rm' = RmFatal(SaveConfig(changed, FALSE),
                                   "Couldn't save config file")
           ELSE rm' = RmReturn(rm)
    /\ UNCHANGED <<bootVars, upVars, conf>>

\* variant: the check of remove port does not look at the argument
NoPortInputNever(map, flags, argPorts) == FALSE
\* remove.go 293: neither a flag nor the argument of remove port is given
NoPortInput(map, flags, argPorts) ==
    /\ Cardinality(map) = 0
    /\ flags.RemoveAll = FALSE
    /\ argPorts = ""

\* remove.go 313: the mapping is removed
MappingRemoved(pm, ports) ==
    \/ ContainsPort(Itoa(pm.LocalPort), ports)
    \/ ContainsPort(Itoa(pm.RemotePort), ports)

\* remove.go 305-324: the entries that stay, with the mappings that stay
RECURSIVE NewPortForwards(_, _, _, _)
NewPortForwards(items, map, flags, ports) ==
    IF items = <<>> THEN <<>>
    ELSE LET v == Head(items)
             rest == NewPortForwards(Tail(items), map, flags, ports)
             newPortMappings ==
                 SelectSeq(v.PortMappings, LAMBDA pm : ~MappingRemoved(pm, ports))
         IN  IF flags.RemoveAll \/ IsMapEqual(map, v.LabelSelector)
               THEN rest
             ELSE IF Len(newPortMappings) > 0
               THEN <<[v EXCEPT !.PortMappings = newPortMappings]>> \o rest
             ELSE rest

(* RunRemovePort, remove.go 280-333 *)
RunRemovePort ==
    /\ rm.op = "port"
    /\ rm.pc = "start"
    /\ LET parsed == ParseSelectors(rm.flags.Selector)
           argPorts == IF Len(rm.args) = 1 THEN rm.args[1] ELSE ""
           ports == Split(argPorts)
           changed ==
               [rm EXCEPT !.config.Ports.items =
                    NewPortForwards(rm.config.Ports.items, parsed.map,
                                    rm.flags, ports)]
       IN  IF parsed.err
             THEN rm' = RmFatal(rm, "Error parsing selectors")
           ELSE IF NoPortInput(parsed.map, rm.flags, argPorts)
             THEN rm' = RmReturn([rm EXCEPT !.log = "specify a flag",
                                            !.help = TRUE])
           ELSE IF rm.config.Ports.set /\ Len(rm.config.Ports.items) > 0
             THEN \/ rm' = RmReturn(SaveConfig(changed, TRUE))
                  \/ rm' = RmFatal(SaveConfig(changed, FALSE),
                                   "Couldn't save config file")
           ELSE rm' = RmReturn(rm)
    /\ UNCHANGED <<bootVars, upVars, conf>>

\* variant: remove package does not check that a name or --all is given
NoPackageInputNever(args, flags) == FALSE
\* remove.go 164: neither a package name nor --all is given
NoPackageInput(args, flags) == Len(args) = 0 /\ flags.RemoveAll = FALSE

\* the index of the first dependency named name, 0 when there is none
FirstNamed(deps, name) ==
    IF \E k \in 1..Len(deps) : deps[k] = name
      THEN CHOOSE k \in 1..Len(deps) :
               /\ deps[k] = name
               /\ \A j \in 1..(k - 1) : deps[j] # name
      ELSE 0

\* append(dependenciesArr[:key], dependenciesArr[key+1:]...), key from 1
RemoveAt(deps, key) ==
    [i \in 1..(Len(deps) - 1) |-> IF i < key THEN deps[i] ELSE deps[i + 1]]

\* rebuildDependencies, remove.go 214-238: write the requirements file, get
\* the clients, helm.UpdateDependencies
RebuildDependencies(r, deps, outcome) ==
    CASE outcome = "writeError" ->
            RmFatal([r EXCEPT !.writes = @ + 1], "write error")
      [] outcome = "clientError" ->
            RmFatal([r EXCEPT !.writes = @ + 1, !.requirements.deps = deps],
                    "Error initializing helm client")
      [] outcome = "updateError" ->
            RmFatal([r EXCEPT !.writes = @ + 1, !.requirements.deps = deps,
                              !.rebuilds = @ + 1], "update error")
      [] OTHER ->
            [r EXCEPT !.writes = @ + 1, !.requirements.deps = deps,
                      !.rebuilds = @ + 1]

RebuildOutcomes == {"writeError", "clientError", "updateError", "ok"}

\* a step that leaves a process that has died where it is
Continue(r, s) == IF r.pc = "fatal" THEN r ELSE s

(* RunRemovePackage, remove.go 137-212 *)
RunRemovePackage ==
    /\ rm.op = "package"
    /\ rm.pc = "start"
    /\ LET deps == rm.requirements.deps
           key == FirstNamed(deps, rm.args[1])
       IN  IF rm.flags.Deployment = "unspecified"
             THEN rm' = RmFatal(rm, "Please specify the deployment")
           ELSE IF rm.flags.Deployment = "invalid"
             THEN rm' = RmFatal(rm, "not a valid helm deployment")
           ELSE IF rm.flags.Deployment = "notfound"
             THEN rm' = RmFatal(rm, "Deployment not found")
           ELSE IF NoPackageInput(rm.args, rm.flags)
             THEN rm' = RmFatal(rm, "specify a package name or --all")
           ELSE IF rm.requirements.kind = "unreadable"
             THEN rm' = RmFatal(rm, "read error")
           ELSE IF rm.requirements.kind = "nokey"
             THEN rm' = RmReturn([rm EXCEPT !.log = "No dependencies found"])
           ELSE IF rm.requirements.kind = "nolist"
             THEN rm' = RmFatal(rm, "Error parsing yaml")
           ELSE IF rm.flags.RemoveAll = FALSE
             THEN IF key = 0
                    THEN rm' = RmReturn([rm EXCEPT !.log =
                                 "Successfully removed dependency"])
                    ELSE \E outcome \in RebuildOutcomes :
                           LET r == RebuildDependencies(rm, RemoveAt(deps, key),
                                                        outcome)
                           IN  rm' = Continue(r, RmReturn([r EXCEPT !.log =
                                         "Successfully removed dependency"]))
           ELSE \E outcome \in RebuildOutcomes :
                  LET r == RebuildDependencies(rm, <<>>, outcome)
                  IN  rm' = Continue(r, RmReturn([r EXCEPT !.log =
                                "Successfully removed all dependencies"]))
    /\ UNCHANGED <<bootVars, upVars, conf>>

(* ============ configutil: InitConfig and GetConfig (tiller.go) ========= *)
\* the values of a config that matter here: whether a release is declared,
\* and its namespace
Undeclared == [release |-> FALSE, Namespace |-> Nil]
Declared(ns) == [release |-> TRUE, Namespace |-> ns]
ConfigValues == {Undeclared} \cup {Declared(ns) : ns \in {Nil, "prod"}}

\* .devspace/config.yaml and .devspace/overwrite.yaml: readable or not, and
\* what they hold
ConfigFiles ==
    {[ok |-> FALSE, val |-> Undeclared]} \cup
    {[ok |-> TRUE, val |-> v] : v \in ConfigValues}

\* makeConfig: a new config without values
MakeConfig == Undeclared

\* loadConfig: the values of the file go into the object, or an error
LoadConfig(object, file) ==
    IF file.ok THEN [err |-> FALSE, val |-> file.val]
    ELSE [err |-> TRUE, val |-> object]

\* merge: the values of the second config go over those of the first
Merge(first, second) ==
    IF second.release
      THEN Declared(IF second.Namespace # Nil THEN second.Namespace
                    ELSE first.Namespace)
      ELSE first

\* variant: the namespace is left as it was loaded
DefaultNamespaceNone(val) == val
\* tiller.go 313-315: a release without a namespace gets "default"
DefaultNamespace(val) ==
    IF val.release /\ val.Namespace = Nil THEN Declared("default") ELSE val

ConfigOps == {"InitConfig", "GetConfig"}

\* a process before any call: the four package variables are nil (0), no
\* object exists
ConfInit(main, overwrite) ==
    [files |-> [main |-> main, overwrite |-> overwrite],
     getConfigOnce |-> [done |-> FALSE, m |-> 0],
     config |-> 0, configRaw |-> 0, overwriteConfig |-> 0,
     overwriteConfigRaw |-> 0,
     objects |-> <<>>, inits |-> 0, first |-> "none", dead |-> FALSE,
     calls |-> [c \in Callers |-> [pc |-> "idle", op |-> "none", ret |-> 0]]]

ConfIdle == ConfInit([ok |-> FALSE, val |-> Undeclared],
                     [ok |-> FALSE, val |-> Undeclared])

ConfAt(c, p) == ~conf.dead /\ conf.calls[c].pc = p

(* a goroutine calls InitConfig or GetConfig *)
ConfigCall(c) ==
    /\ ConfAt(c, "idle")
    /\ \E op \in ConfigOps :
         conf' = [conf EXCEPT !.calls[c].op = op, !.calls[c].pc = "do"]
    /\ UNCHANGED <<bootVars, upVars, rm>>

(* sync.Once.Do: the fast path when done is set, the mutex otherwise; the
   goroutine that gets the mutex with done unset runs the closure *)
ConfigDo(c) ==
    /\ ConfAt(c, "do")
    /\ IF conf.getConfigOnce.done
         THEN conf' = [conf EXCEPT !.calls[c].pc = "return"]
         ELSE /\ conf.getConfigOnce.m = 0
              /\ conf' = [conf EXCEPT !.getConfigOnce.m = c,
                                      !.calls[c].pc = "closure"]
    /\ UNCHANGED <<bootVars, upVars, rm>>

\* tiller.go 285-288, 297-300: four calls of makeConfig
FourNewObjects(cf) ==
    LET n == Len(cf.objects)
    IN  [cf EXCEPT !.objects = @ \o <<MakeConfig, MakeConfig, MakeConfig, MakeConfig>>,
                   !.config = n + 1, !.configRaw = n + 2,
                   !.overwriteConfig = n + 3, !.overwriteConfigRaw = n + 4,
                   !.inits = @ + 1]

\* the closure has returned: done is set and the mutex released
ClosureDone(cf, c) ==
    [cf EXCEPT !.getConfigOnce = [done |-> TRUE, m |-> 0],
               !.calls[c].pc = "return"]

(* InitConfig, tiller.go 284-289: the closure *)
InitConfigClosure(c) ==
    /\ ConfAt(c, "closure")
    /\ conf.calls[c].op = "InitConfig"
    /\ conf' = ClosureDone([FourNewObjects(conf) EXCEPT !.first = "InitConfig"], c)
    /\ UNCHANGED <<bootVars, upVars, rm>>

(* GetConfig, tiller.go 296-316: the closure; log.Fatal ends the process
   when config.yaml cannot be loaded *)
GetConfigClosure(c) ==
    /\ ConfAt(c, "closure")
    /\ conf.calls[c].op = "GetConfig"
    /\ LET made == [FourNewObjects(conf) EXCEPT !.first = "GetConfig"]
           raw == LoadConfig(made.objects[made.configRaw], made.files.main)
           overwriteRaw == LoadConfig(made.objects[made.overwriteConfigRaw],
                                      made.files.overwrite)
           merged == Merge(made.objects[made.config], raw.val)
           overwrite == Merge(made.objects[made.overwriteConfig], overwriteRaw.val)
           final == DefaultNamespace(Merge(merged, overwrite))
       IN  IF raw.err
             THEN conf' = [made EXCEPT !.dead = TRUE]
             ELSE conf' = ClosureDone(
                     [made EXCEPT !.objects[made.configRaw] = raw.val,
                                  !.objects[made.overwriteConfigRaw] = overwriteRaw.val,
                                  !.objects[made.overwriteConfig] = overwrite,
                                  !.objects[made.config] = final], c)
    /\ UNCHANGED <<bootVars, upVars, rm>>

(* tiller.go 291, 318: return config *)
ConfigReturn(c) ==
    /\ ConfAt(c, "return")
    /\ conf' = [conf EXCEPT !.calls[c].ret = conf.config, !.calls[c].pc = "ret"]
    /\ UNCHANGED <<bootVars, upVars, rm>>

ConfigStep(c) ==
    \/ ConfigCall(c) \/ ConfigDo(c) \/ InitConfigClosure(c)
    \/ GetConfigClosure(c) \/ ConfigReturn(c)

\* the variables of the part that is not running
BootIdle ==
    /\ cluster = [api |-> TRUE, ns |-> TRUE, sa |-> TRUE,
                  tiller |-> [exists |-> TRUE, replicas |-> 1, ready |-> 1]]
    /\ getOnce = [done |-> FALSE, m |-> 0]
    /\ helmClient = Nil
    /\ th = [c \in Callers |-> ThreadInit]
    /\ hist = HistInit

UpIdle ==
    /\ cmd = CmdInit(FALSE)
    /\ generated = [HelmChartHash |-> 0]
    /\ release = [revision |-> 0, podRev |-> 0]
    /\ chartHash = 1
    /\ ups = RunInit(generated, 0, NoPrev, 1)

\* the steps of a caller with updateRepos in detail
RepoThreadStep(c) ==
    \/ Call(c) \/ OnceDo(c) \/ OnceLock(c) \/ LoadConfigs(c)
    \/ EnsureNamespace(c) \/ CheckWorkload(c) \/ CreateRBAC(c)
    \/ InstallTiller(c) \/ UpgradeTiller(c) \/ WaitTiller(c)
    \/ OpenTunnel(c) \/ ProbeTiller(c) \/ HomeSetup(c) \/ LoadRepos(c)
    \/ SpawnTask(c) \/ WaitGroup(c) \/ Publish(c)
    \/ OnceDone(c) \/ Return(c)

(* --------------- specification of the bootstrap (NewClient) ------------ *)
Init == BootInit /\ UpIdle /\ rm = RmIdle /\ conf = ConfIdle

Next ==
    \/ \E c \in Callers : ThreadStep(c)
    \/ ClusterStep

Spec == Init /\ [][Next]_vars

\* the Go scheduler runs every goroutine that can take a step
FairSpec == Spec /\ \A c \in Callers : WF_vars(ThreadStep(c))

(* ------ specification of the bootstrap with the repository refresh ----- *)
\* updateRepos makes no call to the cluster: the cluster is taken to stay as
\* the process finds it
NextRepo ==
    \/ \E c \in Callers : RepoThreadStep(c)
    \/ \E r \in 1..NumRepos : DownloadIndex(r)

RepoSpec == Init /\ [][NextRepo]_vars

(* ----------------- specification of `devspace remove` ----------------- *)
InitRemove ==
    /\ BootIdle
    /\ UpIdle
    /\ InitRemoveSync \/ InitRemovePort \/ InitRemovePackage
    /\ conf = ConfIdle

NextRemove ==
    \/ RunRemoveSync
    \/ RunRemovePort
    \/ RunRemovePackage

RemoveSpec == InitRemove /\ [][NextRemove]_vars

(* ------------- specification of consecutive `devspace up` runs --------- *)
InitUp == BootIdle /\ UpInit /\ rm = RmIdle /\ conf = ConfIdle

NextUp ==
    \/ UpStep
    \/ ReleaseStep

UpSpec == InitUp /\ [][NextUp]_vars

(* ---- specification of the deployment pipeline with the flag --no-sleep ---- *)
\* UpSpec and RunSpec run without --no-sleep; here the flag is an input
InitValues ==
    /\ BootIdle
    /\ rm = RmIdle /\ conf = ConfIdle
    /\ generated \in [HelmChartHash : 0..NumHashes]
    /\ release \in {[revision |-> 0, podRev |-> 0],
                    [revision |-> 1, podRev |-> 0],
                    [revision |-> 1, podRev |-> 1]}
    /\ chartHash \in Hashes
    /\ \E deploy \in BOOLEAN, noSleep \in BOOLEAN :
           cmd = [CmdInit(deploy) EXCEPT !.noSleep = noSleep]
    /\ ups = RunInit(generated, generated.HelmChartHash, NoPrev, 1)

NextValues ==
    \/ PipelineStep
    \/ ReleaseStep

ValuesSpec == InitValues /\ [][NextValues]_vars

(* -------- specification of the calls of InitConfig and GetConfig ------- *)
InitConfigs ==
    /\ BootIdle
    /\ UpIdle
    /\ rm = RmIdle
    /\ \E main \in ConfigFiles, overwrite \in ConfigFiles :
           conf = ConfInit(main, overwrite)

NextConfigs == \E c \in Callers : ConfigStep(c)

ConfigSpec == InitConfigs /\ [][NextConfigs]_vars

(* ------ specification of one `devspace up` run with its sessions ------- *)
NextSession ==
    \/ PipelineStep
    \/ SessionStep
    \/ SessionEnv
    \/ ReleaseStep

\* fingerprints are only compared for equality: one fingerprint of the chart
\* with every state of the cache covers the cases
InitSession == InitUp /\ chartHash = 1

RunSpec == InitSession /\ [][NextSession]_vars

(* ------------------------ claims on the bootstrap ---------------------- *)
\* positions inside the closure handed to getOnce.Do
ClosurePcs == {"cfg", "ns", "dep", "create", "install", "upgrade", "wait",
               "tunnel", "probe", "home", "repos", "spawn", "wgwait",
               "publish", "fend"}

TimeoutError == "Tiller didn't start in time"

\* C1: the bootstrap closure is executed at most once per process, by at most
\* one caller at a time, and no caller leaves NewClient before that one
\* execution has finished.
C1_BootstrapAtMostOnce ==
    /\ hist.runs <= 1
    /\ Cardinality({c \in Callers : th[c].pc \in ClosurePcs}) <= 1
    /\ \A c \in Callers :
         th[c].pc \in {"return", "ret"} => hist.finished = 1 /\ getOnce.done

\* a second caller has arrived at the Once while the first probes tiller
C1_Witness ==
    \E c, d \in Callers :
        /\ c # d
        /\ th[c].pc = "probe"
        /\ th[d].pc = "lock"

\* C2: every caller that has returned holds the outcome of the one attempt:
\* the shared client after a success, the attempt's error after a failure.
C2_AllCallersSameOutcome ==
    \A c \in Callers :
        th[c].pc = "ret" =>
            IF hist.result = "ok"
              THEN th[c].ret = [client |-> "wrapper", err |-> Nil]
              ELSE th[c].ret = [client |-> Nil, err |-> hist.result]

\* C3: helmClient is set only after a tunnel was opened and ListReleases
\* succeeded through it.
C3_ClientOnlyAfterProbe ==
    helmClient # Nil => hist.tunnelUp /\ hist.probeOK

\* the client has been published and handed to a caller
C3_Witness ==
    \E c \in Callers :
        /\ th[c].pc = "ret"
        /\ th[c].ret.client = "wrapper"
        /\ hist.probeOK

\* when the readiness wait has timed out the caller gets the timeout error,
\* no client, and no tunnel was attempted
C4_NoConnectionOnTimeout ==
    \A c \in Callers :
        /\ th[c].outerError = TimeoutError => ~hist.tunnelTried /\ helmClient = Nil
        /\ (th[c].pc = "ret" /\ th[c].ret.err = TimeoutError)
              => th[c].ret.client = Nil /\ ~hist.tunnelTried

\* C4: a readiness wait ends: either tiller becomes ready (the tunnel stage
\* starts) or the budget runs out and NewClient returns the timeout error with
\* no client and no tunnel attempted.
C4_ReadinessTimeoutReturns ==
    /\ []C4_NoConnectionOnTimeout
    /\ \A c \in Callers :
         (th[c].pc = "wait") ~>
             (th[c].pc = "tunnel" \/ th[c].outerError = TimeoutError)


(* ------------------- claims on the deployment pipeline ----------------- *)
\* the run has taken the branch of up.go 185
Decided == cmd.branch # "none"

\* where Run is after buildAndDeploy has returned, and how it dies there
SessionPcs == {"forward", "pfwait", "syncs", "sync", "attach", "terminal",
               "stopping"}
SessionFatals == {"syncPanic", "syncStart"}

\* buildAndDeploy has returned
Returned ==
    \/ cmd.pc \in {"built", "exit"} \cup SessionPcs
    \/ cmd.pc = "fatal" /\ cmd.fatal \in SessionFatals

\* the run is past the InstallChartByPath call of the deploy branch
PastInstallCall ==
    \/ cmd.pc \in {"waitpod", "save"}
    \/ Returned
    \/ cmd.pc = "fatal" /\ cmd.fatal \in {"install", "wait", "save"}

\* the deploy branch has returned: install, readiness wait and save succeeded
DeploySucceeded == cmd.branch = "deploy" /\ Returned

\* C5: a run that dies before buildAndDeploy has returned (failed install,
\* readiness timeout after a successful install, or any other) leaves the persisted fingerprint
\* as it was when the run started, and a persisted fingerprint is always the
\* fingerprint of the most recent run whose deploy succeeded to the end
\* (install answered, the pod became ready, the config was saved).
C5_FingerprintOnlyAfterSuccess ==
    /\ (cmd.pc = "fatal" /\ ~Returned) => generated = ups.startCache
    /\ generated.HelmChartHash # 0 => generated.HelmChartHash = ups.lastGood

\* the install succeeded, the readiness wait timed out, and the chart's
\* fingerprint is not the cached one
C5_Witness ==
    /\ cmd.pc = "fatal"
    /\ cmd.fatal = "wait"
    /\ ups.installOK
    /\ generated.HelmChartHash # 0
    /\ cmd.hash # generated.HelmChartHash

\* C6 as stated: unchanged fingerprint, running pod and no --deploy make the
\* pipeline return the found pod without install and without a cache write.
C6_SkipWithoutForce ==
    (Decided /\ cmd.hash = cmd.cached /\ cmd.foundPod # 0 /\ ~cmd.deploy)
        => /\ cmd.branch = "skip"
           /\ cmd.pod = cmd.foundPod
           /\ ups.installCalls = 0
           /\ ups.saves = 0

\* C6 amended: the same when, in addition, no image had to be rebuilt.
C6_SkipWithoutForceOrRebuild ==
    (Decided /\ cmd.hash = cmd.cached /\ cmd.foundPod # 0 /\ ~cmd.deploy
             /\ ~cmd.mustRedeploy)
        => /\ cmd.branch = "skip"
           /\ Returned
           /\ cmd.pod = cmd.foundPod
           /\ ups.installCalls = 0
           /\ ups.saves = 0
           /\ generated = ups.startCache

\* buildAndDeploy has returned on the skip path with a cached fingerprint
C6_Witness ==
    /\ cmd.branch = "skip"
    /\ cmd.pc = "built"
    /\ cmd.cached # 0
    /\ cmd.pod # 0

\* C7: with no running pod found, or --deploy, or a fingerprint other than the
\* cached one, the pipeline takes the deploy branch, and InstallChartByPath has
\* been called once the run is past the values file of the chart.
C7_DeployWhenTriggered ==
    (Decided /\ (cmd.foundPod = 0 \/ cmd.deploy \/ cmd.hash # cmd.cached))
        => /\ cmd.branch = "deploy"
           /\ PastInstallCall => ups.installCalls = 1
           /\ cmd.pc \in {"values", "install"} \/ PastInstallCall
                 \/ (cmd.pc = "fatal" /\ cmd.fatal = "values")

\* --deploy alone (pod found, fingerprint unchanged, no rebuild) has led to
\* an install call
C7_Witness ==
    /\ cmd.deploy
    /\ cmd.foundPod # 0
    /\ cmd.hash = cmd.cached
    /\ ~cmd.mustRedeploy
    /\ ups.installCalls = 1

\* C8 as stated: after a run that died in the install or in the readiness
\* wait, the next run (chart untouched) deploys again, whatever made the
\* failed run deploy.
C8_FailedDeployAlwaysRetried ==
    (ups.prev.end = "deployFatal" /\ Decided /\ cmd.hash = ups.prev.hash)
        => cmd.branch = "deploy"

\* C8 amended: it does so when the failed run's fingerprint differed from the
\* cached one (the cache still holds the old one).
C8_FailedChangedChartRetried ==
    (ups.prev.end = "deployFatal" /\ ups.prev.differed /\ Decided
        /\ cmd.hash = ups.prev.hash)
        => /\ cmd.branch = "deploy"
           /\ cmd.cached # cmd.hash
           /\ PastInstallCall => ups.installCalls = 1

\* the retry rests on the fingerprint alone: a pod is running, no --deploy,
\* no rebuild
C8_Witness ==
    /\ ups.prev.end = "deployFatal"
    /\ ups.prev.differed
    /\ cmd.hash = ups.prev.hash
    /\ cmd.foundPod # 0
    /\ ~cmd.deploy
    /\ ~cmd.mustRedeploy
    /\ ups.installCalls = 1

\* the revision the persisted config holds, 0 when it holds none
CachedRevision ==
    IF "Revision" \in DOMAIN generated THEN generated.Revision ELSE 0

C10_OneWritePerSuccessfulDeploy ==
    /\ ups.saves <= 1
    /\ DeploySucceeded => ups.saves = 1
    /\ (cmd.branch = "skip" \/ (cmd.pc = "fatal" /\ ~Returned)) => ups.saves = 0
    /\ ups.saves = 1 => cmd.branch = "deploy" /\ ups.installOK /\ ups.waitOK
    /\ generated # ups.startCache => ups.saves = 1

\* the one write of a successful deploy has happened
C10_Witness ==
    /\ DeploySucceeded
    /\ ups.saves = 1
    /\ generated # ups.startCache


(* --------------------- claims on one run and its sessions -------------- *)
PipelinePcs == {"load", "build", "hash", "decide", "values", "install",
                "waitpod", "save"}

\* the stage of Run a position belongs to: 0 setup, 1 bootstrap, 2 registries,
\* 3 deployment pipeline, 4 port forwarding, 5 sync, 6 terminal, 7 the
\* terminal has been left
StageOf(pc) ==
    CASE pc = "start" -> 0
      [] pc = "initHelm" -> 1
      [] pc = "registries" -> 2
      [] pc \in PipelinePcs -> 3
      [] pc \in {"built", "forward", "pfwait"} -> 4
      [] pc \in {"syncs", "sync"} -> 5
      [] pc \in {"attach", "terminal"} -> 6
      [] pc \in {"stopping", "exit"} -> 7

\* a port-forward or sync declaration has had its pod looked up
PodResolved == cmd.fi > 0 \/ cmd.si > 0

C11_StagesDone ==
    /\ (cmd.pc # "fatal" /\ StageOf(cmd.pc) >= 2) => cmd.helm # Nil
    /\ PodResolved => Returned
    /\ (cmd.sync # "unread" \/ cmd.si > 0)
          => (cmd.portforwarding = "off" \/ cmd.fi = NumForwards)
    /\ cmd.attached # <<>> => (cmd.sync = "off" \/ cmd.si = NumSyncs)
    /\ cmd.attached # <<>> => cmd.portforwarding # "unread"

C11_StageStep ==
    (cmd.pc # "fatal" /\ cmd'.pc # "fatal")
        => StageOf(cmd'.pc) \in {StageOf(cmd.pc), StageOf(cmd.pc) + 1}

\* C11: Run passes its stages in the order bootstrap, registries, deployment
\* pipeline, port forwarding, sync, terminal, one stage at a time and never
\* backwards: the pipeline runs with a helm client, no pod of a declaration is
\* looked up before buildAndDeploy has returned, no sync declaration is touched
\* before the last port-forward declaration, and the terminal is entered after
\* the last sync declaration.
C11_StagesInOrder == []C11_StagesDone /\ [][C11_StageStep]_vars

\* the terminal is open after a deploy, with a forward and a sync session
C11_Witness ==
    /\ cmd.pc = "terminal"
    /\ cmd.branch = "deploy"
    /\ Len(cmd.forwards) > 0
    /\ Len(cmd.syncConfigs) > 0

\* no session was started, no declaration touched, the terminal not entered
NoSession ==
    /\ cmd.portforwarding = "unread"
    /\ cmd.sync = "unread"
    /\ cmd.fi = 0
    /\ cmd.si = 0
    /\ cmd.forwards = <<>>
    /\ cmd.syncConfigs = <<>>
    /\ cmd.attached = <<>>

\* the install call of this run failed, or the wait for the release pod did
DeployFailed ==
    /\ cmd.branch = "deploy"
    /\ \/ ups.installCalls = 1 /\ ~ups.installOK
       \/ ups.installOK /\ ~ups.waitOK /\ cmd.pc # "waitpod"

\* C12: a run that dies before buildAndDeploy has returned (in the bootstrap,
\* in the pipeline) has started no session and has not entered the terminal,
\* and a run whose install call or readiness wait failed does die there.
C12_FatalBeforeSessions ==
    /\ (cmd.pc = "fatal" /\ ~Returned) => NoSession
    /\ DeployFailed => cmd.pc = "fatal" /\ cmd.fatal \in {"install", "wait"}
    /\ cmd.helm = Nil => cmd.pc \in {"start", "initHelm", "fatal"}
    /\ (cmd.helm = Nil /\ cmd.pc = "fatal") => cmd.fatal \in {"setup", "bootstrap"}

\* the process has died in the readiness wait of the release pod
C12_Witness ==
    /\ cmd.pc = "fatal"
    /\ cmd.fatal = "wait"
    /\ DeployFailed
    /\ NoSession

\* the number of Stop calls on the k-th started sync session
Stops(k) == cmd.syncConfigs[k].stops

\* C13: Stop is called on no sync session before enterTerminal has returned,
\* never twice on one session, and when Run has returned it has been called
\* once on every session startSync started, whether or not a Stop failed.
C13_EverySyncStoppedOnce ==
    /\ \A k \in 1..Len(cmd.syncConfigs) : Stops(k) <= 1
    /\ cmd.pc \notin {"stopping", "exit"}
          => \A k \in 1..Len(cmd.syncConfigs) : Stops(k) = 0
    /\ cmd.pc = "exit"
          => \A k \in 1..Len(cmd.syncConfigs) : Stops(k) = 1
    /\ cmd.stopFailed
          => \E k \in 1..Len(cmd.syncConfigs) : Stops(k) = 1

\* Run has returned, every declaration had started a session and a Stop failed
C13_Witness ==
    /\ cmd.pc = "exit"
    /\ Len(cmd.syncConfigs) = NumSyncs
    /\ cmd.stopFailed
    /\ \A k \in 1..Len(cmd.syncConfigs) : Stops(k) = 1

\* C14: when Run has returned after the terminal, the stop channel of every
\* port-forward session that was started has been closed.
C14_ForwardsStoppedAfterAttach ==
    cmd.pc = "exit"
        => \A k \in 1..Len(cmd.forwards) : cmd.forwards[k].stop = "closed"

\* a session was started for the declaration the loop is at
HandleFor(d) ==
    \/ d.kind = "forward" /\ \E k \in 1..Len(cmd.forwards) :
                                 cmd.forwards[k].decl = d.idx
    \/ d.kind = "sync" /\ \E k \in 1..Len(cmd.syncConfigs) :
                              cmd.syncConfigs[k].decl = d.idx

\* C15: when the pod lookup of a sync or port-forward declaration fails or
\* finds no pod, the declaration is skipped with a warning: something is
\* logged, no session is started for it, the process goes on, and the loop
\* stays with the remaining declarations.
C15_UnresolvedPodSkipped ==
    cmd.decl.lookup \in {"error", "none"}
        => /\ cmd.decl.log \in {"warn", "error"}
           /\ ~HandleFor(cmd.decl)
           /\ cmd.pc # "fatal"
           /\ cmd.pc = (IF cmd.decl.kind = "forward" THEN "forward" ELSE "sync")

\* the declaration names a container the pod does not have
NamedAbsent(d) ==
    /\ d.name # 0
    /\ \A k \in 1..Len(d.containers) : d.containers[k] # d.name

\* C16: a sync declaration whose pod was found is bound to the pod's first
\* container when it names none and to the container it names otherwise; when
\* the pod has no container or not the named one, the declaration is skipped
\* with a warning, no session is started for it and the loop goes on.
C16_ContainerSelection ==
    (cmd.decl.kind = "sync" /\ cmd.decl.lookup = "pod")
        => IF Len(cmd.decl.containers) = 0 \/ NamedAbsent(cmd.decl)
             THEN /\ cmd.decl.res \in {"noContainers", "notFound"}
                  /\ cmd.decl.log = "warn"
                  /\ ~HandleFor(cmd.decl)
                  /\ cmd.pc = "sync"
             ELSE /\ cmd.decl.res \in {"started", "startFailed"}
                  /\ cmd.decl.container = (IF cmd.decl.name = 0
                                             THEN cmd.decl.containers[1]
                                             ELSE cmd.decl.name)
                  /\ cmd.decl.res = "started" <=> HandleFor(cmd.decl)

\* a session was started on a named container that is not the pod's first
C16_Witness ==
    /\ cmd.decl.kind = "sync"
    /\ cmd.decl.res = "started"
    /\ cmd.decl.name # 0
    /\ Len(cmd.decl.containers) = 2
    /\ cmd.decl.container = cmd.decl.containers[2]

\* C17: when the start of a sync session fails, the process dies there: the
\* failed declaration is the last one startSync has touched, no session is
\* recorded for it and the terminal is not entered.
C17_SyncStartFailureAborts ==
    cmd.decl.res = "startFailed"
        => /\ cmd.pc = "fatal"
           /\ cmd.fatal = "syncStart"
           /\ cmd.si = cmd.decl.idx
           /\ ~HandleFor(cmd.decl)
           /\ cmd.attached = <<>>

\* the start of the first sync declaration failed, a later one is left
C17_Witness ==
    /\ cmd.decl.res = "startFailed"
    /\ cmd.fatal = "syncStart"
    /\ cmd.si < NumSyncs

C18_WaitBounded ==
    /\ cmd.pc = "pfwait" => cmd.timer <= PortForwardTimeout
    /\ (cmd.pc = "pfwait" /\ cmd.timer = PortForwardTimeout)
          => SelectCases(cmd.readyChan, cmd.timer) # {}
    /\ cmd.decl.res = "timeout"
          => /\ cmd.pc = "forward"
             /\ cmd.decl.log = "error"
             /\ \E k \in 1..Len(cmd.forwards) :
                   /\ cmd.forwards[k].decl = cmd.decl.idx
                   /\ cmd.forwards[k].stop = "open"

C18_WaitStep ==
    (cmd.pc = "pfwait" /\ cmd'.pc # "pfwait")
        => /\ cmd'.pc = "forward"
           /\ cmd'.forwards = cmd.forwards
           /\ cmd'.fi = cmd.fi
           /\ cmd'.decl.res = "timeout" => cmd.timer = PortForwardTimeout

\* C18: the wait for the readiness of a port-forward session ends at the
\* latest when 5 seconds have passed; it ends with the loop going on to the
\* next declaration, and after a timeout the timeout is logged, nothing is
\* fatal, and the forwarding goroutine is left running.
C18_ForwardTimeoutContinues == []C18_WaitBounded /\ [][C18_WaitStep]_vars

\* the first port-forward declaration has timed out, the loop is at the next
C18_Witness ==
    /\ cmd.decl.kind = "forward"
    /\ cmd.decl.res = "timeout"
    /\ cmd.decl.idx < NumForwards
    /\ cmd.pc = "forward"

(* ------------------ claims on a repeated bootstrap --------------------- *)
C19_NoCallsWhenReady ==
    (hist.steady /\ hist.runs = 1 /\ ~hist.forced) => hist.calls = {}

C19_LaterCallStep ==
    \A c \in Callers :
        (th[c].pc \notin ClosurePcs /\ th'[c] # th[c])
            => hist'.calls = hist.calls /\ cluster' = cluster

\* C19: a bootstrap that runs without upgradeTiller on a backend that is
\* Ready (an earlier bootstrap has left it so) and stays so makes no create,
\* install or upgrade call, and a further NewClient call in the same process
\* makes no cluster call at all.
C19_SecondBootstrapNoCalls == []C19_NoCallsWhenReady /\ [][C19_LaterCallStep]_vars

\* on a Ready backend the attempt has succeeded without a call and every
\* caller of the process has returned
C19_Witness ==
    /\ hist.steady
    /\ ~hist.forced
    /\ hist.result = "ok"
    /\ hist.calls = {}
    /\ \A c \in Callers : th[c].pc = "ret"

(* ---------------- claims on the stages of the bootstrap ---------------- *)
\* the stages a bootstrap attempt can go to from a stage
StageSuccessors ==
    [p \in ClosurePcs |->
        CASE p = "cfg" -> {"ns", "fend"}
          [] p = "ns" -> {"dep", "fend"}
          [] p = "dep" -> {"create", "upgrade", "wait"}
          [] p = "create" -> {"install", "fend"}
          [] p = "install" -> {"wait", "fend"}
          [] p = "upgrade" -> {"wait", "fend"}
          [] p = "wait" -> {"wait", "tunnel", "fend"}
          [] p = "tunnel" -> {"tunnel", "probe", "fend"}
          [] p = "probe" -> {"probe", "home", "fend"}
          [] p = "home" -> {"repos", "publish", "fend"}
          [] p = "repos" -> {"spawn", "fend"}
          [] p = "spawn" -> {"spawn", "wgwait"}
          [] p = "wgwait" -> {"publish"}
          [] p = "publish" -> {"fend"}
          [] p = "fend" -> {"return"}]

\* the cluster call a stage may make
StageCalls ==
    [p \in ClosurePcs |->
        CASE p = "ns" -> {"createNamespace"}
          [] p = "create" -> {"createTillerRBAC"}
          [] p = "install" -> {"install"}
          [] p = "upgrade" -> {"upgrade"}
          [] OTHER -> {}]

C20_StageStep ==
    \A c \in Callers :
        (th[c].pc \in ClosurePcs /\ th'[c] # th[c])
            => /\ th'[c].pc \in StageSuccessors[th[c].pc]
               /\ (hist'.calls \ hist.calls) \subseteq StageCalls[th[c].pc]
               /\ (th'[c].pc = "tunnel" /\ th[c].pc # "tunnel")
                     => /\ cluster.api
                        /\ cluster.tiller.exists
                        /\ cluster.tiller.ready = cluster.tiller.replicas
               /\ (th[c].outerError = Nil /\ th'[c].outerError # Nil)
                     => th'[c].pc = "fend"
               /\ (th'[c].pc = "fend" /\ th[c].pc # "publish")
                     => th'[c].outerError # Nil
               /\ hist'.tunnelTried # hist.tunnelTried => th[c].pc = "tunnel"
               /\ hist'.probeOK # hist.probeOK => th[c].pc = "probe"
               /\ helmClient' # helmClient => th[c].pc = "publish"

C20_StageState ==
    \A c \in Callers :
        /\ th[c].pc \in {"probe", "home", "repos", "spawn", "wgwait", "publish"}
              => th[c].tunnel # Nil
        /\ th[c].pc \in {"home", "repos", "spawn", "wgwait", "publish"}
              => hist.probeOK
        /\ (th[c].pc \in ClosurePcs \ {"fend"}) => th[c].outerError = Nil

\* C20: a bootstrap attempt goes through namespace check, workload check,
\* install or upgrade, readiness wait, tunnel, probe and publication in this
\* order: the tunnel stage is entered only from a readiness wait that saw
\* ready = desired replicas, the probe only with a tunnel, the client is
\* published only after a successful probe, and a stage that fails ends the
\* attempt with an error without any later stage.
C20_StagesInOrder == []C20_StageState /\ [][C20_StageStep]_vars

\* the attempt created the namespace, installed tiller and is about to
\* publish the client
C20_Witness ==
    \E c \in Callers :
        /\ th[c].pc = "publish"
        /\ {"createNamespace", "install"} \subseteq hist.calls

(* ---------------- claims on the workload check and install ------------- *)
C21_WorkloadStep ==
    \A c \in Callers :
        (th'[c] # th[c]) =>
            /\ th[c].pc = "dep" =>
                 /\ th'[c].pc = (IF ~DeploymentFound THEN "create"
                                 ELSE IF th[c].upgradeTiller THEN "upgrade"
                                 ELSE "wait")
                 /\ hist'.calls = hist.calls
                 /\ cluster' = cluster
            /\ th'[c].pc \in {"create", "upgrade"} => th[c].pc = "dep"
            /\ th'[c].pc = "install" => th[c].pc = "create"
            /\ "install" \in (hist'.calls \ hist.calls) => th[c].pc = "install"
            /\ "upgrade" \in (hist'.calls \ hist.calls) => th[c].pc = "upgrade"

\* C21: the workload check goes to the install path when the lookup of the
\* deployment fails, to the upgrade path when it succeeds and upgradeTiller is
\* set, and otherwise straight to the readiness wait without a call; the
\* install path and the upgrade path are entered from the workload check only,
\* and Install and Upgrade are called on their own paths only.
C21_WorkloadCheck == [][C21_WorkloadStep]_vars

\* a deployment that was found without upgradeTiller: the attempt waits for
\* readiness and has made no call
C21_Witness ==
    \E c \in Callers :
        /\ th[c].pc = "wait"
        /\ ~th[c].upgradeTiller
        /\ hist.calls = {}
        /\ th[c].tillerWaitingTime = TillerWaitingTime

C22_InstallStep ==
    \A c \in Callers :
        (th'[c] # th[c]) =>
            /\ th[c].pc = "create" =>
                 IF ServiceAccountFound
                   THEN /\ th'[c].pc = "install"
                        /\ hist'.calls = hist.calls
                        /\ cluster' = cluster
                   ELSE /\ hist'.calls = hist.calls \cup {"createTillerRBAC"}
                        /\ \/ /\ th'[c].pc = "install"
                              /\ cluster'.sa
                           \/ /\ th'[c].pc = "fend"
                              /\ th'[c].outerError = "rbac create error"
                              /\ cluster' = cluster
            /\ "createTillerRBAC" \in (hist'.calls \ hist.calls)
                  => th[c].pc = "create" /\ "install" \notin hist.calls
            /\ th'[c].pc = "install" => th[c].pc = "create"
            /\ "install" \in (hist'.calls \ hist.calls) => th[c].pc = "install"

C22_NoInstallAfterRBACFailure ==
    \A c \in Callers :
        th[c].outerError = "rbac create error" => "install" \notin hist.calls

\* C22: createTiller looks the service account up before Install; the service
\* account, role and role binding are created exactly when that lookup fails,
\* before the Install call; when creating them fails the attempt ends with the
\* error and Install is not called.
C22_RBACBeforeInstall == []C22_NoInstallAfterRBACFailure /\ [][C22_InstallStep]_vars

\* the service account was missing: the RBAC objects were created, then
\* tiller was installed
C22_Witness ==
    \E c \in Callers :
        /\ th[c].pc = "wait"
        /\ {"createTillerRBAC", "install"} \subseteq hist.calls
        /\ cluster.sa

(* ------------------- claims on the polling loops ----------------------- *)
C23_WaitStep ==
    \A c \in Callers :
        (th[c].pc = "wait" /\ th'[c] # th[c]) =>
            /\ th'[c].pc = "tunnel"
                  <=> /\ th[c].tillerWaitingTime > 0
                      /\ DeploymentFound
                      /\ cluster.tiller.ready = cluster.tiller.replicas
            /\ th'[c].pc = "fend"
                  <=> th[c].tillerWaitingTime <= 0
            /\ th'[c].pc = "fend" => th'[c].outerError = TimeoutError
            /\ th'[c].pc \in {"wait", "tunnel", "fend"}
            /\ th'[c].pc # "fend" => th'[c].outerError = Nil
            /\ cluster' = cluster /\ hist' = hist

C23_TimeoutStep ==
    \A c \in Callers :
        (th'[c].outerError = TimeoutError /\ th[c].outerError # TimeoutError)
            => th[c].pc = "wait" /\ th[c].tillerWaitingTime <= 0

TasksIn(st) == {r \in 1..Len(hist.tasks) : hist.tasks[r] = st}

\* updateRepos is between its first go statement and the return of wg.Wait
Refreshing == \E c \in Callers : th[c].pc \in {"spawn", "wgwait"}

\* C24: updateRepos starts one download task per repository of the
\* repositories file, the tasks run concurrently with each other, updateRepos
\* returns only when every task has finished, and a task whose download fails
\* logs the error and nothing else: updateRepos returns nil and NewClient
\* hands out the client.
C24_RefreshJoinsAllTasks ==
    /\ Len(hist.tasks) <= hist.configured
    /\ hist.wg = Cardinality(TasksIn("running"))
    /\ hist.repoErrs <= Cardinality(TasksIn("done"))
    /\ \A c \in Callers : th[c].pc = "wgwait" => Len(hist.tasks) = hist.configured
    /\ ~Refreshing => /\ TasksIn("running") = {}
                      /\ Len(hist.tasks) = hist.configured
    /\ \A c \in Callers :
         th[c].pc \in {"spawn", "wgwait", "publish"} => th[c].outerError = Nil
    /\ (hist.configured > 0 /\ hist.finished = 1)
          => hist.result = "ok" /\ helmClient = "wrapper"

\* every repository's download failed and was logged; the caller has got the
\* client
C24_Witness ==
    \E c \in Callers :
        /\ th[c].pc = "ret"
        /\ th[c].ret = [client |-> "wrapper", err |-> Nil]
        /\ hist.configured = NumRepos
        /\ TasksIn("done") = 1..NumRepos
        /\ hist.repoErrs = NumRepos

(* ------------------ claims on `devspace remove` ------------------------ *)
\* none of the inputs that select what to remove is given on the command line
NoSelectorInput ==
    CASE rm.op = "sync" ->
            /\ rm.flags.Selector = ""
            /\ ~rm.flags.RemoveAll
            /\ rm.flags.LocalPath = ""
            /\ rm.flags.ContainerPath = ""
      [] rm.op = "port" ->
            /\ rm.flags.Selector = ""
            /\ ~rm.flags.RemoveAll
            /\ rm.args \in {<<>>, <<"">>}
      [] rm.op = "package" ->
            /\ rm.args = <<>>
            /\ ~rm.flags.RemoveAll
      [] OTHER -> FALSE

\* C25: remove sync, remove port and remove package called with no selector,
\* no --all and no path, port or package argument leave the config (in memory
\* and in its file) and the requirements file as they were, and call neither
\* SaveConfig nor the rewrite of the requirements file.
C25_NoInputNoChange ==
    (rm.pc # "start" /\ NoSelectorInput) =>
        /\ rm.file = rm.in.config
        /\ rm.config = rm.in.config
        /\ rm.requirements = rm.in.requirements
        /\ rm.saves = 0
        /\ rm.writes = 0
        /\ rm.rebuilds = 0

\* remove sync without a flag has returned, with sync paths in the config
C25_Witness ==
    /\ rm.op = "sync"
    /\ rm.pc = "returned"
    /\ NoSelectorInput
    /\ rm.help
    /\ Len(rm.in.config.Sync.items) = MaxEntries

C26_BudgetStep ==
    \A c \in Callers :
        (th'[c] # th[c]) =>
            /\ (th'[c].pc = "wait" /\ th[c].pc # "wait")
                  => th'[c].tillerWaitingTime = TillerWaitingTime
            /\ (th'[c].pc = "tunnel" /\ th[c].pc # "tunnel")
                  => th'[c].tunnelWaitTime = TunnelWaitTime
            /\ (th'[c].pc = "probe" /\ th[c].pc # "probe")
                  => th'[c].helmWaitTime = HelmWaitTime
            /\ (th[c].pc = "wait" /\ th'[c].pc = "wait")
                  => /\ th'[c].tunnelWaitTime = th[c].tunnelWaitTime
                     /\ th'[c].helmWaitTime = th[c].helmWaitTime
            /\ (th[c].pc = "tunnel" /\ th'[c].pc = "tunnel")
                  => /\ th'[c].tillerWaitingTime = th[c].tillerWaitingTime
                     /\ th'[c].helmWaitTime = th[c].helmWaitTime
            /\ (th[c].pc = "probe" /\ th'[c].pc = "probe")
                  => /\ th'[c].tillerWaitingTime = th[c].tillerWaitingTime
                     /\ th'[c].tunnelWaitTime = th[c].tunnelWaitTime

\* C26: the readiness wait, the tunnel loop and the probe loop each count
\* down a budget of their own: a loop starts with its full budget whatever
\* the loops before it have used, and a pass of one loop leaves the budgets
\* of the other two as they are.
C26_SeparateBudgets == [][C26_BudgetStep]_vars

\* the readiness wait has used all but its last interval and reads the
\* deployment ready: the tunnel loop is entered next
C26_Witness ==
    \E c \in Callers :
        /\ th[c].pc = "wait"
        /\ th[c].tillerWaitingTime = TillerCheckInterval
        /\ DeploymentFound
        /\ TillerStarted(cluster.tiller)
        /\ TillerPodRunning

(* ---------------------- claims on the flags of Run --------------------- *)
C27_FlagsOffState ==
    /\ cmd.sync = "off" =>
         /\ cmd.syncConfigs = <<>>
         /\ cmd.si = 0
         /\ ~cmd.deferred
         /\ cmd.pc \notin {"sync", "stopping"}
         /\ ~(cmd.pc = "fatal" /\ cmd.fatal \in SessionFatals)
         /\ cmd.pc = "exit" => Len(cmd.attached) = 1
    /\ cmd.portforwarding = "off" =>
         /\ cmd.forwards = <<>>
         /\ cmd.fi = 0
         /\ cmd.pc \notin {"forward", "pfwait"}

C27_FlagsOffStep ==
    /\ (cmd.sync = "off" /\ cmd.pc = "terminal" /\ cmd' # cmd)
          => cmd'.pc = "exit"
    /\ (cmd.pc = "syncs" /\ cmd' # cmd /\ cmd'.sync = "off")
          => cmd'.pc = "attach"
    /\ (cmd.pc = "built" /\ cmd' # cmd /\ cmd'.portforwarding = "off")
          => cmd'.pc = "syncs"

\* C27: a run whose sync flag is off calls neither startSync nor Stop and
\* returns when enterTerminal has returned; a run whose portforwarding flag is
\* off starts no port-forward session.
C27_DisabledFlagsStartNothing == []C27_FlagsOffState /\ [][C27_FlagsOffStep]_vars

\* both flags off: the run has returned after the terminal
C27_Witness ==
    /\ cmd.sync = "off"
    /\ cmd.portforwarding = "off"
    /\ cmd.pc = "exit"
    /\ Len(cmd.attached) = 1

\* a pass of a polling loop that does not end the loop counts its budget down
C28_PassCountsDown ==
    \A c \in Callers :
        (th'[c] # th[c]) =>
            /\ (th[c].pc = "wait" /\ th'[c].pc = "wait")
                  => th'[c].tillerWaitingTime
                        = th[c].tillerWaitingTime - TillerCheckInterval
            /\ (th[c].pc = "tunnel" /\ th'[c].pc = "tunnel")
                  => th'[c].tunnelWaitTime
                        = th[c].tunnelWaitTime - TunnelCheckInterval
            /\ (th[c].pc = "probe" /\ th'[c].pc = "probe")
                  => th'[c].helmWaitTime = th[c].helmWaitTime - HelmCheckInterval

\* C28: every pass of the readiness wait, of the tunnel loop and of the probe
\* loop that does not end its loop takes one interval off the loop's budget,
\* whatever the cluster answered (not ready, or an error of the lookup), so
\* that each loop ends after a bounded number of passes.
C28_EveryPassCountsDown == [][C28_PassCountsDown]_vars

\* the number of the pass a loop is at when `left` of its budget remains:
\* every earlier pass has taken one interval off
PassNumber(budget, left, interval) == (budget - left) \div interval + 1

\* the attempts the policy allows: the budget divided by the interval
AttemptsAllowed(budget, interval) == budget \div interval

\* a pass of a polling loop that makes an attempt: the readiness wait and the
\* probe loop test their budget before the attempt, the tunnel loop after it
C29_AttemptStep ==
    \A c \in Callers :
        (th'[c] # th[c]) =>
            /\ (th[c].pc = "wait" /\ th[c].tillerWaitingTime > 0)
                  => PassNumber(TillerWaitingTime, th[c].tillerWaitingTime,
                                TillerCheckInterval)
                        <= AttemptsAllowed(TillerWaitingTime, TillerCheckInterval)
            /\ th[c].pc = "tunnel"
                  => PassNumber(TunnelWaitTime, th[c].tunnelWaitTime,
                                TunnelCheckInterval)
                        <= AttemptsAllowed(TunnelWaitTime, TunnelCheckInterval)
            /\ (th[c].pc = "probe" /\ th[c].helmWaitTime > 0)
                  => PassNumber(HelmWaitTime, th[c].helmWaitTime,
                                HelmCheckInterval)
                        <= AttemptsAllowed(HelmWaitTime, HelmCheckInterval)

\* C29: the readiness wait, the tunnel loop and the probe loop follow one
\* policy: with a budget of 120 s counted down by 5 s, none of them makes
\* more than 120 / 5 = 24 attempts.
C29_AtMost24Attempts == [][C29_AttemptStep]_vars

(* ------------------- claims on the result of NewClient ----------------- *)
\* C30: whatever NewClient returns, the client or the error is not nil; so
\* it is for a call made after the attempt of the process has failed.
C30_ClientOrError ==
    \A c \in Callers :
        th[c].pc = "ret" => th[c].ret.client # Nil \/ th[c].ret.err # Nil

(* ------------- claims on the arguments of later calls ------------------ *)
\* caller c is not the one that runs the closure: the Once is done, or
\* another caller holds it
LaterCaller(c) == getOnce.done \/ getOnce.m \notin {0, c}

C31_UpgradeByFirstOnly ==
    /\ "upgrade" \in hist.calls => hist.forced
    /\ hist.runs <= 1

C31_LaterCallerStep ==
    \A c \in Callers :
        (LaterCaller(c) /\ th'[c] # th[c])
            => /\ cluster' = cluster
               /\ hist' = hist
               /\ helmClient' = helmClient

\* C31: tiller is upgraded only when the call that runs the closure, the
\* first of the process, was given upgradeTiller; a call that comes later,
\* whatever its argument, runs no closure: it makes no cluster call and leaves
\* the client as it is.
C31_FirstCallDecidesUpgrade ==
    []C31_UpgradeByFirstOnly /\ [][C31_LaterCallerStep]_vars

\* the first call ran without upgradeTiller and succeeded; a later call with
\* upgradeTiller has returned, and tiller was found and not upgraded
C31_Witness ==
    \E c \in Callers :
        /\ th[c].pc = "ret"
        /\ th[c].upgradeTiller
        /\ ~hist.forced
        /\ hist.result = "ok"
        /\ hist.calls = {}
        /\ th[c].ret.client = "wrapper"

(* --------------- claims on the end of the sync sessions ---------------- *)
\* the process has ended: Run has returned or the process has died
Terminated == cmd.pc \in {"exit", "fatal"}

\* C32: when the process has ended, every sync session that was started has
\* been stopped, also when the process died because a later sync declaration
\* could not be started.
C32_StartedSyncsStoppedAtEnd ==
    Terminated =>
        \A k \in 1..Len(cmd.syncConfigs) : cmd.syncConfigs[k].stops >= 1


\* C33: the interactive attach is only ever invoked with a resolved pod of the
\* release: on the skip path the running pod the lookup found, on the deploy
\* path the pod of the revision this run installed, returned by the readiness
\* wait; it is never invoked without a pod.
C33_AttachWithResolvedPod ==
    \A k \in 1..Len(cmd.attached) :
        /\ cmd.attached[k] # 0
        /\ cmd.branch \in {"skip", "deploy"}
        /\ cmd.branch = "skip" => cmd.attached[k] = cmd.foundPod
        /\ cmd.branch = "deploy" =>
              /\ ups.installOK /\ ups.waitOK
              /\ cmd.attached[k] = cmd.releaseRevision

\* the terminal was entered after a deployment, with the pod of the new
\* revision, while the lookup had found the pod of an older one
C33_Witness ==
    /\ cmd.pc = "terminal"
    /\ cmd.branch = "deploy"
    /\ cmd.foundPod # 0
    /\ cmd.attached = <<cmd.releaseRevision>>
    /\ cmd.releaseRevision # cmd.foundPod

\* the terminal was entered on the skip path with the pod of the lookup
C33_SkipWitness ==
    /\ cmd.pc = "terminal"
    /\ cmd.branch = "skip"
    /\ cmd.attached = <<cmd.foundPod>>


\* the inputs of one port-forward declaration
ResourceTypes == {"unset", "pod", "other"}
LabelSelectors == {"empty", "set"}

\* C34: a port-forward session is started only for a declaration whose
\* resource type is unset or 'pod' and whose label selector is not empty; a
\* declaration of any other resource type gets a warning and no session.
C34_Outcome ==
    \A rtype \in ResourceTypes, selector \in LabelSelectors, lookup \in Lookups :
        LET out == ForwardOutcome(rtype, selector, lookup)
        IN  /\ out.res = "started" => rtype \in {"unset", "pod"} /\ selector = "set"
            /\ rtype \notin {"unset", "pod"} =>
                   out.res = "unsupported" /\ out.log = "warn"

\* C34, the loop: sessions are started by the loop only, for the declaration
\* it is at; the loop takes the declarations one after the other in their
\* order, goes on after a declaration that started nothing, and is left only
\* after the last one.
C34_LoopStep ==
    /\ cmd'.forwards # cmd.forwards =>
          /\ cmd.pc = "forward"
          /\ cmd'.decl.res = "started"
          /\ cmd'.forwards = Append(cmd.forwards,
                                    [decl |-> cmd.fi + 1, stop |-> "open"])
    /\ cmd'.fi # cmd.fi =>
          /\ cmd.pc = "forward"
          /\ cmd'.fi = cmd.fi + 1
          /\ cmd'.decl.kind = "forward" /\ cmd'.decl.idx = cmd'.fi
    /\ cmd.pc = "forward" /\ cmd' # cmd /\ cmd.fi < NumForwards =>
          /\ cmd'.fi = cmd.fi + 1
          /\ cmd'.pc \in {"forward", "pfwait"}
          /\ cmd'.decl.res # "started" =>
                cmd'.pc = "forward" /\ cmd'.forwards = cmd.forwards
          /\ cmd'.decl.res = "unsupported" => cmd'.decl.log = "warn"
    /\ cmd.pc = "pfwait" /\ cmd'.pc # cmd.pc =>
          cmd'.pc = "forward" /\ cmd'.fi = cmd.fi

C34_ForwardOnlyForPodsWithSelector == []C34_Outcome /\ [][C34_LoopStep]_vars

\* the first declaration started no session and the loop has gone on to the
\* second, for which a session is being started
C34_Witness ==
    /\ cmd.pc = "pfwait"
    /\ cmd.fi = 2
    /\ cmd.forwards = <<[decl |-> 2, stop |-> "open"]>>


\* C35: the override values passed to the install hold one entry for every
\* declared image, with the image reference of that image; an entry has an
\* empty command and empty args exactly when --no-sleep is set, and neither
\* key otherwise.
C35_OverrideValues ==
    ups.installCalls > 0 =>
        LET containers == cmd.overwriteValues.containers
        IN  /\ DOMAIN containers = Images
            /\ \A i \in Images :
                 /\ containers[i]["image"] = GetImageURL(i)
                 /\ cmd.noSleep =>
                       /\ DOMAIN containers[i] = {"image", "command", "args"}
                       /\ containers[i]["command"] = <<>>
                       /\ containers[i]["args"] = <<>>
                 /\ ~cmd.noSleep => DOMAIN containers[i] = {"image"}

\* the chart was installed with --no-sleep and every entry has the two keys
C35_Witness ==
    /\ ups.installCalls > 0
    /\ ups.installOK
    /\ cmd.noSleep
    /\ \A i \in Images :
         "command" \in DOMAIN cmd.overwriteValues.containers[i]

\* the chart was installed without --no-sleep and no entry has a command
C35_AsleepWitness ==
    /\ ups.installCalls > 0
    /\ ups.installOK
    /\ ~cmd.noSleep
    /\ \A i \in Images :
         DOMAIN cmd.overwriteValues.containers[i] = {"image"}


\* the one criterion of a run of remove sync, "none" when there is not
\* exactly one
SyncCriterion(flags) ==
    LET map == ParseSelectors(flags.Selector).map
        given == {c \in {"local", "container", "selector"} :
                     \/ c = "local" /\ flags.LocalPath # ""
                     \/ c = "container" /\ flags.ContainerPath # ""
                     \/ c = "selector" /\ map # {}}
    IN  IF Cardinality(given) = 1 THEN CHOOSE c \in given : TRUE ELSE "none"

\* the entry matches the one criterion
SyncMatches(v, flags) ==
    CASE SyncCriterion(flags) = "local" -> v.LocalSubPath = flags.LocalPath
      [] SyncCriterion(flags) = "container" -> v.ContainerPath = flags.ContainerPath
      [] SyncCriterion(flags) = "selector" ->
            v.LabelSelector = ParseSelectors(flags.Selector).map
      [] OTHER -> FALSE

\* a run of remove sync that has saved the config
SyncSaved == rm.op = "sync" /\ rm.pc = "returned" /\ rm.saves = 1

\* C36: remove sync with a single criterion (only --local, only --container
\* or only --selector) removes exactly the entries that match it; every other
\* entry, one with an empty label selector included, stays in its place in the
\* order; with --all every entry is removed.
C36_SingleCriterionRemovesMatches ==
    SyncSaved /\ ~ParseSelectors(rm.flags.Selector).err =>
        /\ rm.flags.RemoveAll => rm.config.Sync.items = <<>>
        /\ ~rm.flags.RemoveAll /\ SyncCriterion(rm.flags) # "none" =>
              rm.config.Sync.items =
                  SelectSeq(rm.in.config.Sync.items,
                            LAMBDA v : ~SyncMatches(v, rm.flags))
        /\ rm.file = rm.config


\* the ports listed by the argument of remove port
ListedPorts(args) ==
    IF Len(args) = 1
      THEN {TrimSpace(Split(args[1])[i]) : i \in 1..Len(Split(args[1]))}
      ELSE {}

\* the mapping has a listed port
Listed(pm, args) ==
    Itoa(pm.LocalPort) \in ListedPorts(args) \/ Itoa(pm.RemotePort) \in ListedPorts(args)

\* the declarations that are to stay, each with the mappings that are to stay
RECURSIVE PortsExpected(_, _)
PortsExpected(items, args) ==
    IF items = <<>> THEN <<>>
    ELSE LET v == Head(items)
             stay == SelectSeq(v.PortMappings, LAMBDA pm : ~Listed(pm, args))
         IN  (IF stay = <<>> THEN <<>>
              ELSE <<[LabelSelector |-> v.LabelSelector, PortMappings |-> stay]>>)
             \o PortsExpected(Tail(items), args)

\* a run of remove port with a port list, without --selector and --all, that
\* has saved the config
PortListSaved ==
    /\ rm.op = "port" /\ rm.pc = "returned" /\ rm.saves = 1
    /\ rm.flags.Selector = "" /\ ~rm.flags.RemoveAll
    /\ Len(rm.args) = 1 /\ rm.args[1] # ""

\* C37: remove port with a port list and no selector removes exactly the
\* mappings whose local or remote port is listed, drops a declaration only
\* when all of its mappings were removed and leaves everything else unchanged
\* and in order; afterwards no remaining mapping has a listed port.
C37_PortListRemovesListedMappings ==
    PortListSaved =>
        /\ rm.config.Ports.items = PortsExpected(rm.in.config.Ports.items, rm.args)
        /\ \A k \in 1..Len(rm.config.Ports.items) :
             \A j \in 1..Len(rm.config.Ports.items[k].PortMappings) :
                ~Listed(rm.config.Ports.items[k].PortMappings[j], rm.args)
        /\ rm.file = rm.config

\* C37 for the configs in which every declaration has a label selector
C37_WithSelectorsEverywhere ==
    PortListSaved
      /\ (\A k \in 1..Len(rm.in.config.Ports.items) :
              rm.in.config.Ports.items[k].LabelSelector # {}) =>
        /\ rm.config.Ports.items = PortsExpected(rm.in.config.Ports.items, rm.args)
        /\ rm.file = rm.config


\* a run of remove package with a name, without --all, that got as far as
\* the dependencies list and did not die
PackageNamedDone ==
    /\ rm.op = "package" /\ rm.pc = "returned"
    /\ Len(rm.args) = 1 /\ ~rm.flags.RemoveAll
    /\ rm.requirements.kind = "list"

\* C38: remove package with a name and without --all removes the first
\* dependency of that name and keeps all others in order; the requirements
\* file is rewritten and the dependencies are rebuilt only when an entry was
\* removed; success is reported only when a dependency of that name existed.
C38_RemovesFirstNamed ==
    PackageNamedDone =>
        LET before == rm.in.requirements.deps
            key == FirstNamed(before, rm.args[1])
        IN  /\ key # 0 =>
                 /\ rm.requirements.deps = RemoveAt(before, key)
                 /\ rm.writes = 1 /\ rm.rebuilds = 1
            /\ key = 0 =>
                 /\ rm.requirements.deps = before
                 /\ rm.writes = 0 /\ rm.rebuilds = 0
            /\ rm.log = "Successfully removed dependency" => key # 0

\* the part of C38 on the list, the file and the rebuild, without the report
C38_ListAndRebuild ==
    PackageNamedDone =>
        LET before == rm.in.requirements.deps
            key == FirstNamed(before, rm.args[1])
        IN  /\ key # 0 =>
                 /\ rm.requirements.deps = RemoveAt(before, key)
                 /\ rm.writes = 1 /\ rm.rebuilds = 1
            /\ key = 0 =>
                 /\ rm.requirements.deps = before
                 /\ rm.writes = 0 /\ rm.rebuilds = 0


\* the values GetConfig is to return: config.yaml with overwrite.yaml over
\* it, the namespace of a declared release defaulted
LoadedValues(files) ==
    LET main == files.main.val
        over == IF files.overwrite.ok THEN files.overwrite.val ELSE Undeclared
        both == IF over.release
                  THEN [release |-> TRUE,
                        Namespace |-> IF over.Namespace # Nil THEN over.Namespace
                                      ELSE main.Namespace]
                  ELSE main
    IN  IF both.release /\ both.Namespace = Nil
          THEN [both EXCEPT !.Namespace = "default"]
          ELSE both

\* the calls that have returned
ConfReturned == {c \in Callers : conf.calls[c].pc = "ret"}

\* the objects are initialized once and every call returns the same object
C39_InitializedOnce ==
    /\ conf.inits <= 1
    /\ Len(conf.objects) = 4 * conf.inits
    /\ \A c \in ConfReturned :
         /\ conf.inits = 1
         /\ conf.calls[c].ret = conf.config
         /\ conf.calls[c].ret # 0

\* the object a returned GetConfig call holds has the values of the files
C39_GetConfigLoaded ==
    \A c \in ConfReturned :
        conf.calls[c].op = "GetConfig" =>
            conf.objects[conf.calls[c].ret] = LoadedValues(conf.files)

====
